---- MODULE Spec2Model ----
(***************************************************************************)
(* Format-string pipeline of atcoder-gui: Analyzer (scalar flattening,     *)
(* loop detection, loop extension), Matcher/Evaluator and Type Inferencer. *)
(* Sequences are 1-based here; the source's arrays are 0-based.            *)
(***************************************************************************)
EXTENDS Integers, Sequences, FiniteSets, TLC

VARIABLES
  pc,        \* position of the driver: which call has run
  root0,     \* the raw tree's children as the caller built them (history)
  root,      \* the raw FormatNode's children (the object handed to analyze)
  nodes,     \* Analyzer.normalize: its argument (flattened, Break-free)
  i,         \* Analyzer.normalize: loop index (1-based)
  result,    \* Analyzer.normalize: the output list under construction
  built,     \* the Loops built so far, each with the left/right windows it came from
  out,       \* children of the tree analyze returned
  out2,      \* children of the tree analyze returned for its own output
  format,    \* children of the FormatNode handed to matchFormat / inferTypesFromInstances
  input,     \* matchFormat: the sample text
  tokens,    \* matchFormat: the tokens of the sample
  env,       \* matchFormat: the bindings made so far
  tokenIndex, \* matchFormat: the cursor, the number of tokens consumed
  error,     \* matchFormat: the exception that left it, if any
  loopRuns,  \* matchFormat: what each Loop execution did (history)
  lookups,   \* matchFormat: the Item references evalAST resolved (history)
  child,     \* matchFormat: the child of the FormatNode processed next (1-based)
  instances, \* inferTypesFromInstances: the sample texts
  firstError, \* inferTypesFromInstances: what the first try block caught
  retryError, \* inferTypesFromInstances: what the second try block caught
  collapsedAst, \* inferTypesFromInstances: children of collapseLoops' tree
  collapsedVars, \* inferTypesFromInstances: names collapseLoops collapsed
  returned,  \* inferTypesFromInstances: the value returned
  thrown,    \* inferTypesFromInstances: the error thrown to the caller
  tries,     \* inferTypesFromInstances: the try blocks entered (history)
  operands,  \* unifyTypes: three types to unify
  unified,   \* unifyTypes: the results for the operands, in both groupings
  inputFormats, \* generateParseResult: the format string of each part
  samples,   \* generateParseResult: the sample inputs
  multipleCases, \* generateParseResult: the repeated-test-case flag
  partIndex, \* generateParseResult: the part in progress (1-based)
  lexed,     \* generateParseResult: the tokens of the part
  rawAst,    \* generateParseResult: children of the tree the Parser returned
  formatTree, \* generateParseResult: children of the tree the Analyzer returned
  inferred,  \* generateParseResult: types and collapsedVars kept for the part
  extracted, \* VariableExtractor.vars after extract
  parts,     \* the parts pushed so far, handed to UniversalGenerator.generate
  context,   \* UniversalGenerator.generate: the TemplateContext returned
  failure    \* the exception that left generateParseResult, if any

anVars == <<root0, root, nodes, i, result, built, out, out2>>
mVars == <<format, input, tokens, env, tokenIndex, error, loopRuns, lookups, child>>
tVars == <<instances, firstError, retryError, collapsedAst, collapsedVars,
           returned, thrown, tries, operands, unified>>

gVars == <<inputFormats, samples, multipleCases, partIndex, lexed, rawAst,
           formatTree, inferred, extracted, parts, context, failure>>

vars == <<pc, anVars, mVars, tVars, gVars>>

----------------------------------------------------------------------------
(* AST nodes (types.ts) *)

NumberNode(v) == [type |-> "number", value |-> v]
ItemNode(n, idx) == [type |-> "item", name |-> n, indices |-> idx]
BinOpNode(o, l, r) == [type |-> "binop", op |-> o, left |-> l, right |-> r]
DotsNode == [type |-> "dots"]
BreakNode == [type |-> "break"]
LoopNode(v, s, e, b) ==
  [type |-> "loop", variable |-> v, start |-> s, end |-> e, body |-> b]
NullLoop == [type |-> "null"]

Var(n) == ItemNode(n, <<>>)

Last(s, K) == SubSeq(s, Len(s) - K + 1, Len(s))
DropLast(s, K) == IF K >= Len(s) THEN <<>> ELSE SubSeq(s, 1, Len(s) - K)

----------------------------------------------------------------------------
(* Analyzer.areNodesEqual *)

RECURSIVE areNodesEqual(_, _)
areNodesEqual(a, b) ==
  IF a.type # b.type THEN FALSE
  ELSE IF a.type = "item" THEN
    /\ a.name = b.name
    /\ Len(a.indices) = Len(b.indices)
    /\ \A k \in 1..Len(a.indices) : areNodesEqual(a.indices[k], b.indices[k])
  ELSE IF a.type = "number" THEN a.value = b.value
  ELSE IF a.type = "binop" THEN
    /\ a.op = b.op
    /\ areNodesEqual(a.left, b.left)
    /\ areNodesEqual(a.right, b.right)
  ELSE a = b

----------------------------------------------------------------------------
(* Analyzer.flattenVariables *)

NoStats == [seen |-> {}, hasNonConstIndex |-> {}, notSingleDim |-> {}]

MergeStats(S) ==
  [seen |-> UNION {s.seen : s \in S},
   hasNonConstIndex |-> UNION {s.hasNonConstIndex : s \in S},
   notSingleDim |-> UNION {s.notSingleDim : s \in S}]

RECURSIVE checkUsage(_)
checkUsage(node) ==
  IF node.type = "item" THEN
    MergeStats(
      {[seen |-> {node.name},
        hasNonConstIndex |->
          IF Len(node.indices) = 1 /\ node.indices[1].type # "number"
          THEN {node.name} ELSE {},
        notSingleDim |-> IF Len(node.indices) # 1 THEN {node.name} ELSE {}]}
      \cup {checkUsage(node.indices[k]) : k \in 1..Len(node.indices)})
  ELSE IF node.type = "binop" THEN
    MergeStats({checkUsage(node.left), checkUsage(node.right)})
  ELSE NoStats

traverse(children) ==
  MergeStats({NoStats} \cup {checkUsage(children[k]) : k \in 1..Len(children)})

IsDotsAt(ns, j) == j >= 1 /\ j <= Len(ns) /\ ns[j].type \in {"dots", "vdots"}

PrevNonBreak(ns, p) ==
  LET js == {j \in 1..(p - 1) : ns[j].type # "break"}
  IN IF js = {} THEN 0 ELSE CHOOSE j \in js : \A x \in js : x <= j

NextNonBreak(ns, p) ==
  LET js == {j \in (p + 1)..Len(ns) : ns[j].type # "break"}
  IN IF js = {} THEN Len(ns) + 1 ELSE CHOOSE j \in js : \A x \in js : j <= x

\* adjacency that does not look past Breaks
checkAdjacencyNoSkip(ns) ==
  [seen |-> {ns[p].name : p \in {q \in 1..Len(ns) : ns[q].type = "item"}},
   isAdjacentToDots |->
     {ns[p].name : p \in {q \in 1..Len(ns) :
        /\ ns[q].type = "item"
        /\ (IsDotsAt(ns, q - 1) \/ IsDotsAt(ns, q + 1))}}]

checkAdjacency(ns) ==
  [seen |-> {ns[p].name : p \in {q \in 1..Len(ns) : ns[q].type = "item"}},
   isAdjacentToDots |->
     {ns[p].name : p \in {q \in 1..Len(ns) :
        /\ ns[q].type = "item"
        /\ \/ IsDotsAt(ns, PrevNonBreak(ns, q))
           \/ IsDotsAt(ns, NextNonBreak(ns, q))}}]

candidatesOf(usage, adj) ==
  (usage.seen \cup adj.seen)
    \ (usage.hasNonConstIndex \cup usage.notSingleDim \cup adj.isAdjacentToDots)

flattenCandidates(children) ==
  candidatesOf(traverse(children), checkAdjacency(children))

RECURSIVE transform(_, _)
transform(node, candidates) ==
  IF node.type = "item" THEN
    LET newIndices ==
          [k \in 1..Len(node.indices) |-> transform(node.indices[k], candidates)]
    IN IF node.name \in candidates
       THEN [node EXCEPT !.name = node.name \o ToString(newIndices[1].value),
                         !.indices = <<>>]
       ELSE [node EXCEPT !.indices = newIndices]
  ELSE IF node.type = "binop" THEN
    [node EXCEPT !.left = transform(node.left, candidates),
                 !.right = transform(node.right, candidates)]
  ELSE node

transformWith(children, candidates) ==
  IF candidates = {} THEN children
  ELSE [k \in 1..Len(children) |-> transform(children[k], candidates)]

flattenVariables(children) ==
  transformWith(children, flattenCandidates(children))

----------------------------------------------------------------------------
(* Analyzer.generateLoopVar *)

RECURSIVE extract(_)
extract(node) ==
  IF node.type = "item" THEN
    {node.name} \cup UNION {extract(node.indices[k]) : k \in 1..Len(node.indices)}
  ELSE IF node.type = "binop" THEN extract(node.left) \cup extract(node.right)
  ELSE {}

loopVarCandidates == <<"i", "j", "k", "l", "m">>

FirstUnused(used) ==
  LET free == {c \in 1..Len(loopVarCandidates) : loopVarCandidates[c] \notin used}
  IN IF free = {} THEN "i"
     ELSE loopVarCandidates[CHOOSE c \in free : \A x \in free : c <= x]

generateLoopVarAlwaysI(start, end, left, right) == "i"

generateLoopVar(start, end, left, right) ==
  FirstUnused(extract(start) \cup extract(end)
              \cup UNION {extract(left[k]) : k \in 1..Len(left)}
              \cup UNION {extract(right[k]) : k \in 1..Len(right)})

----------------------------------------------------------------------------
(* Analyzer.match, Analyzer.createLoop, Analyzer.detectLoop *)

match(left, right) ==
  /\ Len(left) = Len(right)
  /\ \A k \in 1..Len(left) :
       /\ left[k].type = "item"
       /\ right[k].type = "item"
       /\ left[k].name = right[k].name

\* First index position at which the two items differ, 0 when there is none
\* (the source's diffIndex, which is 0-based with -1 for none).
diffIndexOf(firstL, firstR) ==
  LET ds == {j \in 1..Len(firstL.indices) :
               ~areNodesEqual(firstL.indices[j], firstR.indices[j])}
  IN IF ds = {} THEN 0 ELSE CHOOSE j \in ds : \A x \in ds : j <= x

\* every pair beyond the first agrees outside the varying position
consistentPairs(left, right, diffIndex) ==
  \A k \in 2..Len(left) :
    /\ Len(left[k].indices) = Len(right[k].indices)
    /\ Len(left[k].indices) >= diffIndex
    /\ \A j \in 1..Len(left[k].indices) :
         j = diffIndex
         \/ areNodesEqual(left[k].indices[j], right[k].indices[j])

buildLoop(left, diffIndex, start, end, loopVar) ==
  LoopNode(loopVar, start, end,
           [k \in 1..Len(left) |->
              [left[k] EXCEPT !.indices[diffIndex] = Var(loopVar)]])

createLoopAt(left, right, diffIndex) ==
  IF diffIndex = 0 THEN NullLoop
  ELSE IF ~consistentPairs(left, right, diffIndex) THEN NullLoop
  ELSE buildLoop(left, diffIndex,
                 left[1].indices[diffIndex], right[1].indices[diffIndex],
                 generateLoopVar(left[1].indices[diffIndex],
                                 right[1].indices[diffIndex], left, right))

createLoop(left, right) ==
  IF Len(left[1].indices) # Len(right[1].indices) THEN NullLoop
  ELSE createLoopAt(left, right, diffIndexOf(left[1], right[1]))

NoDetection == [K |-> 0, loopNode |-> NullLoop]

RECURSIVE detectLoopFrom(_, _, _)
detectLoopTry(ns, dotsIndex, K, loopNode) ==
  IF loopNode.type = "loop" THEN [K |-> K, loopNode |-> loopNode]
  ELSE detectLoopFrom(ns, dotsIndex, K + 1)

detectLoopWindow(left, right) ==
  IF match(left, right) THEN createLoop(left, right) ELSE NullLoop

detectLoopFrom(ns, dotsIndex, K) ==
  IF K > dotsIndex - 1 THEN NoDetection
  ELSE IF dotsIndex + K > Len(ns) THEN NoDetection
  ELSE detectLoopTry(ns, dotsIndex, K,
         detectLoopWindow(SubSeq(ns, dotsIndex - K, dotsIndex - 1),
                          SubSeq(ns, dotsIndex + 1, dotsIndex + K)))

detectLoop(ns, dotsIndex) == detectLoopFrom(ns, dotsIndex, 1)

----------------------------------------------------------------------------
(* Analyzer.matchesTemplate, matchLoopBody, tryExtendLoop *)

matchesTemplate(node, template, loopVar, indexVal) ==
  /\ node.type = "item"
  /\ node.name = template.name
  /\ Len(node.indices) = Len(template.indices)
  /\ \A j \in 1..Len(node.indices) :
       LET nodeIdx == node.indices[j]
           templIdx == template.indices[j]
       IN IF templIdx.type = "item" /\ templIdx.name = loopVar
             /\ Len(templIdx.indices) = 0
          THEN nodeIdx.type = "number" /\ nodeIdx.value = indexVal
          ELSE areNodesEqual(nodeIdx, templIdx)

matchLoopBody(ns, loopNode, indexVal) ==
  /\ Len(ns) = Len(loopNode.body)
  /\ \A k \in 1..Len(ns) :
       matchesTemplate(ns[k], loopNode.body[k], loopNode.variable, indexVal)

\* One call: [ok, result, loopNode], result and loopNode as the call leaves them.
tryExtendLoop(res, loopNode) ==
  LET K == Len(loopNode.body)
      no == [ok |-> FALSE, result |-> res, loopNode |-> loopNode]
  IN IF loopNode.start.type # "number" THEN no
     ELSE IF Len(res) < K THEN no
     ELSE IF matchLoopBody(Last(res, K), loopNode, loopNode.start.value - 1)
       THEN [ok |-> TRUE, result |-> DropLast(res, K),
             loopNode |-> [loopNode EXCEPT !.start.value = loopNode.start.value - 1]]
       ELSE no

\* while (this.tryExtendLoop(result, loopNode)) {}
RECURSIVE ExtendWhile(_, _)
ExtendNext(t) ==
  IF t.ok THEN ExtendWhile(t.result, t.loopNode)
  ELSE [result |-> t.result, loopNode |-> t.loopNode]

ExtendStop(t) == [result |-> t.result, loopNode |-> t.loopNode]
ExtendWhileOnce(res, loopNode) == ExtendStop(tryExtendLoop(res, loopNode))

ExtendWhile(res, loopNode) == ExtendNext(tryExtendLoop(res, loopNode))

----------------------------------------------------------------------------
(* Analyzer.normalize: one iteration of its while loop, on                 *)
(* st = [nodes, i, result, built].  loopNode.start is the very object      *)
(* left[0].indices[diffIndex] of nodes, so the decrement made by           *)
(* tryExtendLoop shows in nodes too.                                       *)

normalizeDetect(st) ==
  IF st.nodes[st.i].type = "dots" THEN detectLoop(st.nodes, st.i) ELSE NoDetection

normalizePush(st) ==
  [st EXCEPT !.i = st.i + 1, !.result = Append(st.result, st.nodes[st.i])]

normalizeLoop(st, K, created, ext, diffIndex) ==
  [nodes |-> [st.nodes EXCEPT ![st.i - K].indices[diffIndex] = ext.loopNode.start],
   i |-> st.i + K + 1,
   result |-> Append(ext.result, ext.loopNode),
   built |-> Append(st.built,
               [loop |-> created, K |-> K,
                left |-> SubSeq(st.nodes, st.i - K, st.i - 1),
                right |-> SubSeq(st.nodes, st.i + 1, st.i + K)])]

normalizeWith(st, det) ==
  IF det.loopNode.type = "loop"
  THEN normalizeLoop(st, det.K, det.loopNode,
                     ExtendWhile(DropLast(st.result, det.K), det.loopNode),
                     diffIndexOf(st.nodes[st.i - det.K], st.nodes[st.i + 1]))
  ELSE normalizePush(st)

normalizeStep(st) == normalizeWith(st, normalizeDetect(st))

RECURSIVE normalizeFrom(_)
normalizeFrom(st) ==
  IF st.i > Len(st.nodes) THEN st ELSE normalizeFrom(normalizeStep(st))

IsNotBreak(n) == n.type # "break"

analyzeEnter(children) ==
  [nodes |-> SelectSeq(flattenVariables(children), IsNotBreak),
   i |-> 1, result |-> <<>>, built |-> <<>>]

\* Analyzer.analyze as one call: the children of the FormatNode it returns.
analyze(children) == normalizeFrom(analyzeEnter(children)).result

----------------------------------------------------------------------------
(* JavaScript numbers as the Matcher meets them.  A finite number is the   *)
(* decimal n * 10^-e with no trailing zero digit; sums, differences and    *)
(* products of the numbers below are exact in binary floating point too    *)
(* (integers and halves).  The sign of zero is not represented.            *)
Num(n, e) == [k |-> "num", n |-> n, e |-> e]
NaN == [k |-> "nan", n |-> 0, e |-> 0]
Infinity(sign) == [k |-> "inf", n |-> sign, e |-> 0]
IntNum(v) == Num(v, 0)

RECURSIVE Pow10(_)
Pow10(e) == IF e = 0 THEN 1 ELSE 10 * Pow10(e - 1)

RECURSIVE normNum(_, _)
normNum(n, e) ==
  IF e > 0 /\ n % 10 = 0 THEN normNum(n \div 10, e - 1) ELSE Num(n, e)

Sign(n) == IF n < 0 THEN -1 ELSE 1
Abs(n) == IF n < 0 THEN -n ELSE n
Max(a, b) == IF a >= b THEN a ELSE b

\* left + right
jsAddFinite(a, b, e) ==
  normNum(a.n * Pow10(e - a.e) + b.n * Pow10(e - b.e), e)

jsAdd(a, b) ==
  IF a.k = "nan" \/ b.k = "nan" THEN NaN
  ELSE IF a.k = "inf" THEN (IF b.k = "inf" /\ b.n # a.n THEN NaN ELSE a)
  ELSE IF b.k = "inf" THEN b
  ELSE jsAddFinite(a, b, Max(a.e, b.e))

jsNeg(a) == [a EXCEPT !.n = -a.n]

\* left - right
jsSub(a, b) == jsAdd(a, jsNeg(b))

\* left * right
jsMul(a, b) ==
  IF a.k = "nan" \/ b.k = "nan" THEN NaN
  ELSE IF a.k = "inf" \/ b.k = "inf"
       THEN (IF a.n = 0 \/ b.n = 0 THEN NaN ELSE Infinity(Sign(a.n) * Sign(b.n)))
  ELSE normNum(a.n * b.n, a.e + b.e)

FloorQuotient(num, den) ==
  IF den > 0 THEN num \div den ELSE (-num) \div (-den)

\* Math.floor(left / right)
jsFloorDiv(a, b) ==
  IF a.k = "nan" \/ b.k = "nan" THEN NaN
  ELSE IF a.k = "inf"
       THEN (IF b.k = "inf" THEN NaN ELSE Infinity(a.n * Sign(b.n)))
  ELSE IF b.k = "inf" THEN IntNum(0)
  ELSE IF b.n = 0 THEN (IF a.n = 0 THEN NaN ELSE Infinity(Sign(a.n)))
  ELSE IntNum(FloorQuotient(a.n * Pow10(b.e), b.n * Pow10(a.e)))

\* Math.max(0, x)
jsMax0(x) ==
  IF x.k = "nan" THEN NaN
  ELSE IF x.k = "inf" THEN (IF x.n > 0 THEN x ELSE IntNum(0))
  ELSE IF x.n < 0 THEN IntNum(0) ELSE x

----------------------------------------------------------------------------
(* Sample tokens are sequences of one-character strings over digits, "-",  *)
(* "." and letters other than "e" and "x", so a numeric literal has neither*)
(* exponent nor radix prefix.                                              *)
Digits == {"0", "1", "2", "3", "4", "5", "6", "7", "8", "9"}

DigitValue(c) ==
  CASE c = "0" -> 0 [] c = "1" -> 1 [] c = "2" -> 2 [] c = "3" -> 3
    [] c = "4" -> 4 [] c = "5" -> 5 [] c = "6" -> 6 [] c = "7" -> 7
    [] c = "8" -> 8 [] c = "9" -> 9

AllDigits(s) == \A p \in 1..Len(s) : s[p] \in Digits

RECURSIVE DigitsValue(_)
DigitsValue(s) ==
  IF Len(s) = 0 THEN 0
  ELSE 10 * DigitsValue(SubSeq(s, 1, Len(s) - 1)) + DigitValue(s[Len(s)])

DotPositions(s) == {p \in 1..Len(s) : s[p] = "."}

\* the unsigned part of a StrDecimalLiteral: digits, digits "." digits?,
\* or "." digits
jsUnsigned(body, sign, dots) ==
  IF dots = {}
  THEN (IF Len(body) > 0 /\ AllDigits(body)
        THEN IntNum(sign * DigitsValue(body)) ELSE NaN)
  ELSE IF Cardinality(dots) > 1 \/ Len(body) = 1 THEN NaN
  ELSE IF \E p \in 1..Len(body) : body[p] \notin Digits \cup {"."} THEN NaN
  ELSE normNum(sign * DigitsValue(SelectSeq(body, LAMBDA c : c # ".")),
               Len(body) - (CHOOSE p \in dots : TRUE))

\* Number(val) for a string
jsNumber(s) ==
  IF Len(s) > 0 /\ s[1] \in {"-", "+"}
  THEN jsUnsigned(Tail(s), IF s[1] = "-" THEN -1 ELSE 1, DotPositions(Tail(s)))
  ELSE jsUnsigned(s, 1, DotPositions(s))

RECURSIVE FracDigits(_, _)
FracDigits(f, e) ==
  IF e = 0 THEN ""
  ELSE ToString((f \div Pow10(e - 1)) % 10) \o FracDigits(f, e - 1)

\* String(x) for a number, as Array.prototype.join applies it
jsToString(x) ==
  IF x.k = "nan" THEN "NaN"
  ELSE IF x.k = "inf" THEN (IF x.n > 0 THEN "Infinity" ELSE "-Infinity")
  ELSE IF x.e = 0 THEN ToString(x.n)
  ELSE (IF x.n < 0 THEN "-" ELSE "")
         \o ToString(Abs(x.n) \div Pow10(x.e)) \o "."
         \o FracDigits(Abs(x.n) % Pow10(x.e), x.e)

\* indices.join(',')
RECURSIVE join(_)
join(indices) ==
  IF Len(indices) = 1 THEN jsToString(indices[1])
  ELSE jsToString(indices[1]) \o "," \o join(Tail(indices))

\* a key that is an array index is enumerated before the other keys, in
\* ascending order; ArrayIndex is its value, -1 for any other key.  The
\* integers of this model all lie below the largest array index, 2^32 - 2.
ArrayIndex(indices) ==
  IF Len(indices) = 1 /\ indices[1].k = "num" /\ indices[1].e = 0
     /\ indices[1].n >= 0
  THEN indices[1].n ELSE -1

----------------------------------------------------------------------------
(* Values and environments of match.ts.  env is an object whose own keys   *)
(* are kept in the order Object.keys enumerates them; every name of a      *)
(* format is an identifier, so that is insertion order.  A value is a      *)
(* sample token (string), an object of keyed tokens, a number (loop        *)
(* induction values), or a function inherited from Object.prototype.       *)
NoError == [name |-> "none", message |-> ""]
MatchError(msg) == [name |-> "MatchError", message |-> msg]
TypeError(msg) == [name |-> "TypeError", message |-> msg]

Undefined == [kind |-> "undefined", s |-> <<>>, props |-> <<>>, num |-> NaN]
StringValue(s) == [kind |-> "string", s |-> s, props |-> <<>>, num |-> NaN]
ObjectValue(props) == [kind |-> "object", s |-> <<>>, props |-> props, num |-> NaN]
NumberValue(x) == [kind |-> "number", s |-> <<>>, props |-> <<>>, num |-> x]
FunctionValue == [kind |-> "function", s |-> <<>>, props |-> <<>>, num |-> NaN]

\* the identifiers that every object literal inherits
ObjectPrototypeNames ==
  {"constructor", "toString", "toLocaleString", "valueOf",
   "hasOwnProperty", "isPrototypeOf", "propertyIsEnumerable"}

hasOwn(obj, name) == \E p \in 1..Len(obj) : obj[p].name = name
ownIndex(obj, name) == CHOOSE p \in 1..Len(obj) : obj[p].name = name

\* obj[name]
get(obj, name) ==
  IF hasOwn(obj, name) THEN obj[ownIndex(obj, name)].val
  ELSE IF name \in ObjectPrototypeNames THEN FunctionValue
  ELSE Undefined

\* { ...env, ...loopContext }[name]
merged(globals, loopContext, name) ==
  IF hasOwn(loopContext, name) THEN get(loopContext, name) ELSE get(globals, name)

\* obj[name] = val
set(obj, name, val) ==
  IF hasOwn(obj, name) THEN [obj EXCEPT ![ownIndex(obj, name)].val = val]
  ELSE Append(obj, [name |-> name, val |-> val])

hasKey(props, key) == \E p \in 1..Len(props) : props[p].key = key

\* where a new key lands in the enumeration order of an object
insertAt(props, ord) ==
  IF ord < 0 THEN Len(props) + 1
  ELSE 1 + Cardinality({p \in 1..Len(props) :
                          props[p].ord >= 0 /\ props[p].ord < ord})

\* env[name][key] = value on an object
setProp(props, key, ord, value) ==
  IF hasKey(props, key)
  THEN [p \in 1..Len(props) |->
          IF props[p].key = key THEN [props[p] EXCEPT !.value = value]
          ELSE props[p]]
  ELSE SubSeq(props, 1, insertAt(props, ord) - 1)
         \o <<[key |-> key, ord |-> ord, value |-> value]>>
         \o SubSeq(props, insertAt(props, ord), Len(props))

\* Number(val)
NumberOf(val) ==
  IF val.kind = "string" THEN jsNumber(val.s)
  ELSE IF val.kind = "number" THEN val.num
  ELSE NaN

----------------------------------------------------------------------------
(* evalAST.  The result carries the number returned or the error thrown,   *)
(* and lookups: the Item references met, with what each was bound to.      *)
Returned(x, seen) == [val |-> x, err |-> NoError, lookups |-> seen]
Thrown(e, seen) == [val |-> NaN, err |-> e, lookups |-> seen]
Lookup(item, val, raised) ==
  {[name |-> item.name, kind |-> val.kind,
    indexed |-> Len(item.indices) > 0, raised |-> raised]}

evalItem(item, val) ==
  IF val.kind = "undefined"
  THEN Thrown(MatchError("Variable " \o item.name
                \o " not found in environment during evaluation"),
              Lookup(item, val, TRUE))
  ELSE IF val.kind = "object" /\ Len(item.indices) > 0
  THEN Thrown(MatchError("Array access in loop bounds not fully supported yet: "
                \o item.name),
              Lookup(item, val, TRUE))
  ELSE Returned(NumberOf(val), Lookup(item, val, FALSE))

applyOp(op, left, right, seen) ==
  IF op = "+" THEN Returned(jsAdd(left, right), seen)
  ELSE IF op = "-" THEN Returned(jsSub(left, right), seen)
  ELSE IF op = "*" THEN Returned(jsMul(left, right), seen)
  ELSE IF op = "/" THEN Returned(jsFloorDiv(left, right), seen)
  ELSE Thrown(MatchError("Unknown operator " \o op), seen)

evalBinOp(op, left, right) ==
  IF left.err # NoError THEN left
  ELSE IF right.err # NoError
  THEN Thrown(right.err, left.lookups \cup right.lookups)
  ELSE applyOp(op, left.val, right.val, left.lookups \cup right.lookups)

RECURSIVE evalAST(_, _, _)
evalAST(node, globals, loopContext) ==
  IF node.type = "number" THEN Returned(IntNum(node.value), {})
  ELSE IF node.type = "item"
  THEN evalItem(node, merged(globals, loopContext, node.name))
  ELSE IF node.type = "binop"
  THEN evalBinOp(node.op, evalAST(node.left, globals, loopContext),
                 evalAST(node.right, globals, loopContext))
  ELSE Thrown(MatchError("Unknown node type for evaluation: " \o node.type), {})

----------------------------------------------------------------------------
(* matchFormat.  A sample text is a sequence of characters.                *)
Whitespace == {" ", "\n", "\t"}

RECURSIVE trimStart(_)
trimStart(text) ==
  IF Len(text) > 0 /\ text[1] \in Whitespace THEN trimStart(Tail(text))
  ELSE text

RECURSIVE trimEnd(_)
trimEnd(text) ==
  IF Len(text) > 0 /\ text[Len(text)] \in Whitespace
  THEN trimEnd(SubSeq(text, 1, Len(text) - 1))
  ELSE text

trim(text) == trimEnd(trimStart(text))

\* text.split(/\s+/): the pieces between maximal runs of whitespace
RECURSIVE splitFrom(_, _, _, _)
splitFrom(text, p, piece, pieces) ==
  IF p > Len(text) THEN Append(pieces, piece)
  ELSE IF text[p] \notin Whitespace
  THEN splitFrom(text, p + 1, Append(piece, text[p]), pieces)
  ELSE IF p > 1 /\ text[p - 1] \in Whitespace
  THEN splitFrom(text, p + 1, piece, pieces)
  ELSE splitFrom(text, p + 1, <<>>, Append(pieces, piece))

split(text) == splitFrom(text, 1, <<>>, <<>>)

popEmpty(pieces) ==
  IF Len(pieces) = 1 /\ pieces[1] = <<>> THEN <<>> ELSE pieces

tokenize(text) == popEmpty(split(trim(text)))

\* the closure state of one matchFormat call (tokens, env, tokenIndex), the
\* exception in flight if any, and a record of what ran: loopRuns has one
\* entry per execution of a Loop, lookups the references evalAST resolved
startMatch(pieces) ==
  [tokens |-> pieces, env |-> <<>>, tokenIndex |-> 0, error |-> NoError,
   loopRuns |-> <<>>, lookups |-> {}]

throw(st, e) == [st EXCEPT !.error = e]

\* indices.push(evalAST(idxNode, { ...env, ...loopContext })) in order
consIndex(head, rest) ==
  IF head.err # NoError
  THEN [vals |-> <<>>, err |-> head.err, lookups |-> head.lookups]
  ELSE [vals |-> <<head.val>> \o rest.vals, err |-> rest.err,
        lookups |-> head.lookups \cup rest.lookups]

RECURSIVE evalIndices(_, _, _)
evalIndices(idxNodes, globals, loopContext) ==
  IF Len(idxNodes) = 0 THEN [vals |-> <<>>, err |-> NoError, lookups |-> {}]
  ELSE consIndex(evalAST(idxNodes[1], globals, loopContext),
                 evalIndices(Tail(idxNodes), globals, loopContext))

\* env[item.name][key] = value, after  if (!env[item.name]) env[item.name] = {}
\* A token is a non-empty string, hence truthy; the module is strict code,
\* where creating a property on a string throws; a property created on an
\* inherited function does not show in env.
assignIndexed(st, name, cur, key, ord, value) ==
  IF cur.kind = "undefined"
  THEN [st EXCEPT !.env = set(st.env, name,
          ObjectValue(<<[key |-> key, ord |-> ord, value |-> value]>>))]
  ELSE IF cur.kind = "object"
  THEN [st EXCEPT !.env = set(st.env, name,
          ObjectValue(setProp(cur.props, key, ord, value)))]
  ELSE IF cur.kind = "string"
  THEN throw(st, TypeError("Cannot create property on string"))
  ELSE st

storeItem(st, item, value, idx) ==
  IF idx.err # NoError THEN throw(st, idx.err)
  ELSE IF Len(idx.vals) = 0
  THEN [st EXCEPT !.env = set(st.env, item.name, StringValue(value))]
  ELSE assignIndexed(st, item.name, get(st.env, item.name),
                     join(idx.vals), ArrayIndex(idx.vals), value)

consumePerIndex(st, idx) ==
  [st EXCEPT !.tokenIndex = st.tokenIndex + 1 + Len(idx.vals),
             !.lookups = st.lookups \cup idx.lookups]

consumed(st, idx) ==
  [st EXCEPT !.tokenIndex = st.tokenIndex + 1,
             !.lookups = st.lookups \cup idx.lookups]

processItemWith(st, item, idx) ==
  storeItem(consumed(st, idx), item, st.tokens[st.tokenIndex + 1], idx)

\* a consume that raises when one token is still there
processItemEarlyEnd(item, loopContext, st) ==
  IF st.tokenIndex + 1 >= Len(st.tokens)
  THEN throw(st, MatchError("Unexpected end of input"))
  ELSE processItemWith(st, item, evalIndices(item.indices, st.env, loopContext))

processItem(item, loopContext, st) ==
  IF st.tokenIndex >= Len(st.tokens)
  THEN throw(st, MatchError("Unexpected end of input"))
  ELSE processItemWith(st, item, evalIndices(item.indices, st.env, loopContext))

\* Math.max(0, Math.floor((end - start) / step) + 1) with step = 1
loopCountExclusive(start, end) ==
  jsMax0(jsFloorDiv(jsSub(end, start), IntNum(1)))

loopCount(start, end) ==
  jsMax0(jsAdd(jsFloorDiv(jsSub(end, start), IntNum(1)), IntNum(1)))

\* i < count
below(iter, count) ==
  \/ count.k = "inf" /\ count.n > 0
  \/ count.k = "num" /\ iter * Pow10(count.e) < count.n

openRun(st, loop, start, end, seen) ==
  [st EXCEPT !.lookups = st.lookups \cup seen,
             !.loopRuns = Append(st.loopRuns,
                [variable |-> loop.variable, start |-> start, end |-> end,
                 vals |-> <<>>, tokenIndex |-> st.tokenIndex, env |-> st.env,
                 consumed |-> 0, envUnchanged |-> TRUE, raised |-> FALSE])]

enterIteration(st, run, currentVal) ==
  [st EXCEPT !.loopRuns[run].vals = Append(@, currentVal)]

closeRun(st, run) ==
  [st EXCEPT !.loopRuns[run].consumed = st.tokenIndex - st.loopRuns[run].tokenIndex,
             !.loopRuns[run].envUnchanged = (st.env = st.loopRuns[run].env),
             !.loopRuns[run].raised = (st.error # NoError)]

RECURSIVE processNode(_, _, _)
RECURSIVE processAll(_, _, _)
RECURSIVE iterate(_, _, _, _, _, _, _)

\* for (let i = 0; i < count; i++) { ... }
iterate(loop, loopContext, st, start, count, iter, run) ==
  IF st.error # NoError \/ ~below(iter, count) THEN st
  ELSE iterate(loop, loopContext,
               processAll(loop.body,
                          set(loopContext, loop.variable,
                              NumberValue(jsAdd(start, IntNum(iter)))),
                          enterIteration(st, run, jsAdd(start, IntNum(iter)))),
               start, count, iter + 1, run)

processLoopWith(loop, loopContext, st, start, end) ==
  IF start.err # NoError
  THEN throw([st EXCEPT !.lookups = st.lookups \cup start.lookups], start.err)
  ELSE IF end.err # NoError
  THEN throw([st EXCEPT !.lookups = st.lookups \cup start.lookups \cup end.lookups],
             end.err)
  ELSE closeRun(iterate(loop, loopContext,
                        openRun(st, loop, start.val, end.val,
                                start.lookups \cup end.lookups),
                        start.val, loopCount(start.val, end.val), 0,
                        Len(st.loopRuns) + 1),
                Len(st.loopRuns) + 1)

processLoop(loop, loopContext, st) ==
  processLoopWith(loop, loopContext, st,
                  evalAST(loop.start, st.env, loopContext),
                  evalAST(loop.end, st.env, loopContext))

processAll(children, loopContext, st) ==
  IF Len(children) = 0 \/ st.error # NoError THEN st
  ELSE processAll(Tail(children), loopContext,
                  processNode(children[1], loopContext, st))

processNode(ast, loopContext, st) ==
  IF ast.type = "format" THEN processAll(ast.children, loopContext, st)
  ELSE IF ast.type = "item" THEN processItem(ast, loopContext, st)
  ELSE IF ast.type = "loop" THEN processLoop(ast, loopContext, st)
  ELSE st

matchFormat(children, text) ==
  processAll(children, <<>>, startMatch(tokenize(text)))

----------------------------------------------------------------------------
(* typing.ts *)
VarTypes == {"int", "index_int", "float", "char", "string", "query"}

TypingError(msg) == [name |-> "TypingError", message |-> msg]

Unsigned(s) == IF Len(s) > 0 /\ s[1] = "-" THEN Tail(s) ELSE s

\* /^-?\d+$/.test(value)
isIntegerLiteral(s) == Len(Unsigned(s)) > 0 /\ AllDigits(Unsigned(s))

\* /^-?\d+(\.\d+)?$/.test(value)
isDecimalLiteral(s) ==
  \/ isIntegerLiteral(s)
  \/ \E p \in 2..(Len(Unsigned(s)) - 1) :
       /\ Unsigned(s)[p] = "."
       /\ AllDigits(SubSeq(Unsigned(s), 1, p - 1))
       /\ AllDigits(SubSeq(Unsigned(s), p + 1, Len(Unsigned(s))))

getVarTypeNoFallback(value) ==
  IF value.kind = "string"
  THEN (IF isIntegerLiteral(value.s) THEN "int"
        ELSE IF isDecimalLiteral(value.s) THEN "float"
        ELSE IF Len(value.s) = 1 THEN "char"
        ELSE "unknown")
  ELSE "unknown"

\* "unknown" stands for the TypingError thrown for any other kind of value
getVarType(value) ==
  IF value.kind = "number"
  THEN (IF value.num.k = "num" /\ value.num.e = 0 THEN "int" ELSE "float")
  ELSE IF value.kind = "string"
  THEN (IF isIntegerLiteral(value.s) THEN "int"
        ELSE IF isDecimalLiteral(value.s) THEN "float"
        ELSE IF Len(value.s) = 1 THEN "char"
        ELSE "string")
  ELSE "unknown"

unifyTypesLeft(t1, t2) == t1

unifyTypes(t1, t2) ==
  IF t1 = t2 THEN t1
  ELSE IF t1 = "string" \/ t2 = "string" THEN "string"
  ELSE IF t1 = "char" \/ t2 = "char" THEN "string"
  ELSE IF "index_int" \in {t1, t2} /\ "int" \in {t1, t2} THEN "int"
  ELSE IF "index_int" \in {t1, t2} /\ "float" \in {t1, t2} THEN "float"
  ELSE IF "int" \in {t1, t2} /\ "float" \in {t1, t2} THEN "float"
  ELSE "string"

\* candidateTypes.add(t): a Set keeps insertion order and no duplicate
addType(types, t) ==
  IF \E p \in 1..Len(types) : types[p] = t THEN types ELSE Append(types, t)

RECURSIVE propTypes(_, _)
propTypes(props, types) ==
  IF Len(props) = 0 THEN types
  ELSE propTypes(Tail(props),
                 addType(types, getVarType(StringValue(props[1].value))))

candidateTypes(val) ==
  IF val.kind = "object" THEN propTypes(val.props, <<>>)
  ELSE <<getVarType(val)>>

\* for (const t of candidateTypes) currentType = unifyTypes(currentType, t)
RECURSIVE unifyAll(_, _)
unifyAll(currentType, types) ==
  IF Len(types) = 0 THEN currentType
  ELSE unifyAll(unifyTypes(currentType, types[1]), Tail(types))

RECURSIVE typesFrom(_, _)
typesOfEntry(values, types, name, cands) ==
  IF \E p \in 1..Len(cands) : cands[p] = "unknown"
  THEN [types |-> types, err |-> TypingError("Unknown value type")]
  ELSE IF Len(cands) = 0
  THEN [types |-> types,
        err |-> TypingError("Failed to infer type: " \o name \o " has no values")]
  ELSE typesFrom(Tail(values),
                 set(types, name, unifyAll(cands[1], Tail(cands))))

typesFrom(values, types) ==
  IF Len(values) = 0 THEN [types |-> types, err |-> NoError]
  ELSE typesOfEntry(values, types, values[1].name, candidateTypes(values[1].val))

getVarTypesFromMatchResult(values) == typesFrom(values, <<>>)

\* t[name] for a record of types: a type, or what every object inherits
typeAt(t, name) ==
  IF hasOwn(t, name) THEN t[ownIndex(t, name)].val
  ELSE IF name \in ObjectPrototypeNames THEN "function"
  ELSE "undefined"

\* new Set([...Object.keys(t1), ...Object.keys(t2)])
allKeys(t1, t2) ==
  [p \in 1..Len(t1) |-> t1[p].name]
    \o SelectSeq([p \in 1..Len(t2) |-> t2[p].name],
                 LAMBDA name : ~hasOwn(t1, name))

RECURSIVE unifyKeys(_, _, _, _)
unifyKeys(t1, t2, keys, t3) ==
  IF Len(keys) = 0 THEN t3
  ELSE unifyKeys(t1, t2, Tail(keys),
         set(t3, keys[1],
             IF typeAt(t1, keys[1]) # "undefined" /\ typeAt(t2, keys[1]) # "undefined"
             THEN unifyTypes(typeAt(t1, keys[1]), typeAt(t2, keys[1]))
             ELSE IF typeAt(t1, keys[1]) # "undefined" THEN typeAt(t1, keys[1])
             ELSE typeAt(t2, keys[1])))

unifyVarTypes(t1, t2) == unifyKeys(t1, t2, allKeys(t1, t2), <<>>)

NoResult == [types |-> <<>>, collapsedVars |-> {}, isNull |-> TRUE]

\* checkBody: the nodes of a loop body with nested FormatNodes opened
RECURSIVE bodyLeaves(_)
bodyLeaves(ns) ==
  IF Len(ns) = 0 THEN <<>>
  ELSE (IF ns[1].type = "format" THEN bodyLeaves(ns[1].children) ELSE <<ns[1]>>)
         \o bodyLeaves(Tail(ns))

bodyItems(leaves) == SelectSeq(leaves, LAMBDA n : n.type = "item")

isSimpleBody(leaves) ==
  /\ Len(bodyItems(leaves)) <= 1
  /\ \A p \in 1..Len(leaves) : leaves[p].type \in {"item", "break", "dots"}

\* originalItem.indices.findIndex(...): 0 when no index is the loop variable
indexToRemove(item, loopVar) ==
  IF \E p \in 1..Len(item.indices) :
       item.indices[p].type = "item" /\ item.indices[p].name = loopVar
  THEN CHOOSE p \in 1..Len(item.indices) :
         /\ item.indices[p].type = "item" /\ item.indices[p].name = loopVar
         /\ \A q \in 1..(p - 1) :
              ~(item.indices[q].type = "item" /\ item.indices[q].name = loopVar)
  ELSE 0

splice(s, p) == SubSeq(s, 1, p - 1) \o SubSeq(s, p + 1, Len(s))

isCollapsible(loop, leaves) ==
  /\ isSimpleBody(leaves)
  /\ Len(bodyItems(leaves)) = 1
  /\ indexToRemove(bodyItems(leaves)[1], loop.variable) # 0

collapsedItem(item, loopVar) ==
  [item EXCEPT !.indices = splice(item.indices, indexToRemove(item, loopVar))]

\* collapseLoops' transform; ast is the node returned, vars the names it
\* added to collapsedVars
RECURSIVE collapseNode(_)
RECURSIVE collapseAll(_)

collapseAll(ns) ==
  [ast |-> [p \in 1..Len(ns) |-> collapseNode(ns[p]).ast],
   vars |-> UNION {collapseNode(ns[p]).vars : p \in 1..Len(ns)}]

collapseLoop(loop, leaves) ==
  IF isCollapsible(loop, leaves)
  THEN [ast |-> collapsedItem(bodyItems(leaves)[1], loop.variable),
        vars |-> {bodyItems(leaves)[1].name}]
  ELSE [ast |-> [loop EXCEPT !.body = collapseAll(loop.body).ast],
        vars |-> collapseAll(loop.body).vars]

collapseNode(n) ==
  IF n.type = "format"
  THEN [ast |-> [n EXCEPT !.children = collapseAll(n.children).ast],
        vars |-> collapseAll(n.children).vars]
  ELSE IF n.type = "loop" THEN collapseLoop(n, bodyLeaves(n.body))
  ELSE [ast |-> n, vars |-> {}]

collapseLoops(children) == collapseAll(children)

\* the body of either try block: match and type every instance in turn.
\* finalTypes is null until the first instance is typed.
NullTypes == [isNull |-> TRUE, types |-> <<>>]
SomeTypes(t) == [isNull |-> FALSE, types |-> t]

RECURSIVE tryInstances(_, _, _)
typedInstance(children, insts, finalTypes, t) ==
  IF t.err # NoError THEN [types |-> <<>>, err |-> t.err]
  ELSE tryInstances(children, Tail(insts),
         SomeTypes(IF finalTypes.isNull THEN t.types
                   ELSE unifyVarTypes(finalTypes.types, t.types)))

matchedInstance(children, insts, finalTypes, m) ==
  IF m.error # NoError THEN [types |-> <<>>, err |-> m.error]
  ELSE typedInstance(children, insts, finalTypes,
                     getVarTypesFromMatchResult(m.env))

tryInstances(children, insts, finalTypes) ==
  IF Len(insts) = 0 THEN [types |-> finalTypes.types, err |-> NoError]
  ELSE matchedInstance(children, insts, finalTypes,
                       matchFormat(children, insts[1]))

\* what a call of inferTypesFromInstances comes to: a value or an error
Return(types, names) ==
  [types |-> types, collapsedVars |-> names, isNull |-> FALSE]

Outcome(ret, e) == [returned |-> ret, thrown |-> e]

retryOutcomeOwnError(firstErr, collapsed, second) ==
  IF second.err = NoError
  THEN Outcome(Return(second.types, collapsed.vars), NoError)
  ELSE Outcome(NoResult, second.err)

retryOutcome(firstErr, collapsed, second) ==
  IF second.err = NoError
  THEN Outcome(Return(second.types, collapsed.vars), NoError)
  ELSE Outcome(NoResult, firstErr)

afterCollapse(insts, firstErr, collapsed) ==
  IF collapsed.vars # {}
  THEN retryOutcome(firstErr, collapsed, tryInstances(collapsed.ast, insts, NullTypes))
  ELSE Outcome(NoResult, firstErr)

afterFirst(children, insts, first) ==
  IF first.err = NoError THEN Outcome(Return(first.types, {}), NoError)
  ELSE afterCollapse(insts, first.err, collapseLoops(children))

inferTypesFromInstances(children, insts) ==
  IF Len(insts) = 0 THEN Outcome(Return(<<>>, {}), NoError)
  ELSE afterFirst(children, insts, tryInstances(children, insts, NullTypes))

----------------------------------------------------------------------------
(* Raw trees handed to the Analyzer: what Parser.parse builds from format  *)
(* strings.  The parser turns both dots and vdots tokens into a "dots"     *)
(* node and every number token into a non-negative literal.                *)

MaxRawLen == 4

A_(idx) == ItemNode("A", <<idx>>)
B_(idx) == ItemNode("B", <<idx>>)

RawNodes ==
  {A_(NumberNode(1)), A_(NumberNode(2)), A_(Var("N")), A_(Var("i")),
   B_(NumberNode(1)), Var("i"), DotsNode, BreakNode}

SeqsUpTo(S, n) == UNION {[1..k -> S] : k \in 0..n}

\* A_{1,i,j,k,l,m} ... A_{N,i,j,k,l,m}: every loop-variable candidate is taken
AllTaken(first) ==
  ItemNode("A", <<first, Var("i"), Var("j"), Var("k"), Var("l"), Var("m")>>)

ScenarioTrees ==
  { \* a_1 a_2 a_3 ... a_N
    <<A_(NumberNode(1)), A_(NumberNode(2)), A_(NumberNode(3)), DotsNode, A_(Var("N"))>>,
    \* N <newline> a_1 a_2 a_3 ... a_N
    <<Var("N"), BreakNode, A_(NumberNode(1)), A_(NumberNode(2)), A_(NumberNode(3)),
      DotsNode, A_(Var("N"))>>,
    \* A_1 B_1 ... A_N B_N
    <<A_(NumberNode(1)), B_(NumberNode(1)), DotsNode, A_(Var("N")), B_(Var("N"))>>,
    \* A_1 ... A_N ... A_M
    <<A_(NumberNode(1)), DotsNode, A_(Var("N")), DotsNode, A_(Var("M"))>>,
    <<AllTaken(NumberNode(1)), DotsNode, AllTaken(Var("N"))>>,
    \* A_{1,1} ... A_{N,M}
    <<ItemNode("A", <<NumberNode(1), NumberNode(1)>>), DotsNode,
      ItemNode("A", <<Var("N"), Var("M")>>)>>,
    \* A_{1,1} B_{1,1} ... A_{N,1} B_{N,1}
    <<ItemNode("A", <<NumberNode(1), NumberNode(1)>>),
      ItemNode("B", <<NumberNode(1), NumberNode(1)>>), DotsNode,
      ItemNode("A", <<Var("N"), NumberNode(1)>>),
      ItemNode("B", <<Var("N"), NumberNode(1)>>)>>,
    \* A_B_1 B_1: a reference nested in an index
    <<A_(B_(NumberNode(1))), B_(NumberNode(1))>>,
    \* A_{B_2+1} B_N
    <<A_(BinOpNode("+", B_(NumberNode(2)), NumberNode(1))), B_(Var("N"))>>,
    \* T_1 T1
    <<ItemNode("T", <<NumberNode(1)>>), Var("T1")>>,
    \* A1_1 A_11
    <<ItemNode("A1", <<NumberNode(1)>>), A_(NumberNode(11))>> }

RawTrees == SeqsUpTo(RawNodes, MaxRawLen) \cup ScenarioTrees

----------------------------------------------------------------------------
(* The Analyzer as a state machine: analyze is entered, normalize's loop   *)
(* runs one iteration per step, analyze returns; then analyze is run on    *)
(* the tree it returned.                                                   *)

AnalyzerIdle ==
  /\ root0 = <<>>
  /\ root = <<>>
  /\ nodes = <<>>
  /\ i = 1
  /\ result = <<>>
  /\ built = <<>>
  /\ out = <<>>
  /\ out2 = <<>>

MatcherIdle ==
  /\ format = <<>>
  /\ input = <<>>
  /\ tokens = <<>>
  /\ env = <<>>
  /\ tokenIndex = 0
  /\ error = NoError
  /\ loopRuns = <<>>
  /\ lookups = {}
  /\ child = 1

TypingIdle ==
  /\ instances = <<>>
  /\ firstError = NoError
  /\ retryError = NoError
  /\ collapsedAst = <<>>
  /\ collapsedVars = {}
  /\ returned = NoResult
  /\ thrown = NoError
  /\ tries = 0
  /\ operands = <<>>
  /\ unified = <<>>

NoContext == [prediction_success |-> FALSE]
NoInference == [types |-> <<>>, collapsedVars |-> {}]

GeneratorIdle ==
  /\ inputFormats = <<>>
  /\ samples = <<>>
  /\ multipleCases = FALSE
  /\ partIndex = 1
  /\ lexed = <<>>
  /\ rawAst = <<>>
  /\ formatTree = <<>>
  /\ inferred = NoInference
  /\ extracted = <<>>
  /\ parts = <<>>
  /\ context = NoContext
  /\ failure = NoError

InitAnalyzer ==
  /\ root0 \in RawTrees
  /\ root = root0
  /\ pc = "ready"
  /\ nodes = <<>>
  /\ i = 1
  /\ result = <<>>
  /\ built = <<>>
  /\ out = <<>>
  /\ out2 = <<>>
  /\ MatcherIdle
  /\ TypingIdle
  /\ GeneratorIdle

\* positions of root.children that survive the Break filter, in order
RECURSIVE SortedPositions(_)
SortedPositions(S) ==
  IF S = {} THEN <<>>
  ELSE LET mn == CHOOSE x \in S : \A y \in S : x <= y
       IN <<mn>> \o SortedPositions(S \ {mn})

NonBreakPositions(children) ==
  SortedPositions({p \in 1..Len(children) : children[p].type # "break"})

normalizeState == [nodes |-> nodes, i |-> i, result |-> result, built |-> built]

ApplyNormalize(st) ==
  /\ nodes' = st.nodes
  /\ i' = st.i
  /\ result' = st.result
  /\ built' = st.built

AnalyzeEnter ==
  /\ pc = "ready"
  /\ ApplyNormalize(analyzeEnter(root))
  /\ pc' = "normalize"
  /\ UNCHANGED <<root0, root, out, out2>>
  /\ UNCHANGED <<mVars, tVars, gVars>>

\* the decrement made through loopNode.start reaches the caller's tree
ApplyLoop(det, p) ==
  /\ det.loopNode.type = "loop"
  /\ ApplyNormalize(normalizeWith(normalizeState, det))
  /\ root' = [root EXCEPT ![p[i - det.K]].indices = nodes'[i - det.K].indices]

NormalizeLoop ==
  /\ pc = "normalize"
  /\ i <= Len(nodes)
  /\ ApplyLoop(normalizeDetect(normalizeState), NonBreakPositions(root))
  /\ UNCHANGED <<pc, root0, out, out2>>
  /\ UNCHANGED <<mVars, tVars, gVars>>

ApplyPush(det) ==
  /\ det.loopNode.type # "loop"
  /\ ApplyNormalize(normalizeWith(normalizeState, det))

NormalizePush ==
  /\ pc = "normalize"
  /\ i <= Len(nodes)
  /\ ApplyPush(normalizeDetect(normalizeState))
  /\ UNCHANGED <<pc, root0, root, out, out2>>
  /\ UNCHANGED <<mVars, tVars, gVars>>

AnalyzeReturn ==
  /\ pc = "normalize"
  /\ i > Len(nodes)
  /\ out' = result
  /\ pc' = "done"
  /\ UNCHANGED <<root0, root, nodes, i, result, built, out2>>
  /\ UNCHANGED <<mVars, tVars, gVars>>

Reanalyze ==
  /\ pc = "done"
  /\ out2' = analyze(out)
  /\ pc' = "redone"
  /\ UNCHANGED <<root0, root, nodes, i, result, built, out>>
  /\ UNCHANGED <<mVars, tVars, gVars>>

NextAnalyzer ==
  \/ AnalyzeEnter
  \/ NormalizeLoop
  \/ NormalizePush
  \/ AnalyzeReturn
  \/ Reanalyze

SpecAnalyzer == InitAnalyzer /\ [][NextAnalyzer]_vars

----------------------------------------------------------------------------
(* Claims about the Analyzer, checked under SpecAnalyzer *)

LoopPositions(children) == {p \in 1..Len(children) : children[p].type = "loop"}

\* The K statements before position p are the loop's body written out for
\* the index value val: same names, the induction variable replaced by the
\* literal val, every other index unchanged.
PrecededByBodyAt(children, p, val) ==
  LET loop == children[p]
      K == Len(loop.body)
  IN /\ p - 1 >= K
     /\ \A k \in 1..K :
          LET n == children[p - K + k - 1]
              t == loop.body[k]
          IN /\ n.type = "item"
             /\ n.name = t.name
             /\ Len(n.indices) = Len(t.indices)
             /\ \A j \in 1..Len(t.indices) :
                  IF t.indices[j] = Var(loop.variable)
                  THEN n.indices[j] = NumberNode(val)
                  ELSE n.indices[j] = t.indices[j]

LeadingElements ==
  <<A_(NumberNode(1)), A_(NumberNode(2)), A_(NumberNode(3)), DotsNode, A_(Var("N"))>>

\* C1: in the tree analyze returns, no Loop with a literal start s is
\* directly preceded by its body written out for s-1; a_1 a_2 a_3 ... a_N
\* becomes the single Loop 1..N.
C1_LoopExtensionMaximal ==
  pc = "done" =>
    /\ \A p \in LoopPositions(out) :
         out[p].start.type = "number"
           => ~PrecededByBodyAt(out, p, out[p].start.value - 1)
    /\ root0 = LeadingElements
         => out = <<LoopNode("i", NumberNode(1), Var("N"), <<A_(Var("i"))>>)>>

C1_Witness ==
  /\ pc = "done"
  /\ root0 = LeadingElements
  /\ Len(out) = 1
  /\ out[1].type = "loop"
  /\ out[1].start = NumberNode(1)

RECURSIVE HasMarker(_)
HasMarker(node) ==
  \/ node.type \in {"dots", "vdots", "break"}
  \/ /\ node.type = "item"
     /\ \E k \in 1..Len(node.indices) : HasMarker(node.indices[k])
  \/ /\ node.type = "binop"
     /\ (HasMarker(node.left) \/ HasMarker(node.right))
  \/ /\ node.type = "loop"
     /\ \/ HasMarker(node.start)
        \/ HasMarker(node.end)
        \/ \E k \in 1..Len(node.body) : HasMarker(node.body[k])

\* C2: the tree analyze returns holds no dots, vdots or break node at any
\* position.
C2_NoMarkerRemains ==
  pc = "done" => \A p \in 1..Len(out) : ~HasMarker(out[p])

\* C3: analyze applied to its own output returns that output unchanged.
C3_AnalyzeIdempotent ==
  pc = "redone" => out2 = out

RECURSIVE NamesIn(_)
NamesIn(node) ==
  IF node.type = "item"
  THEN {node.name} \cup UNION {NamesIn(node.indices[k]) : k \in 1..Len(node.indices)}
  ELSE IF node.type = "binop" THEN NamesIn(node.left) \cup NamesIn(node.right)
  ELSE {}

IndexNames(item) == UNION {NamesIn(item.indices[k]) : k \in 1..Len(item.indices)}

SiblingItemNames(children) ==
  {children[p].name : p \in {q \in 1..Len(children) : children[q].type = "item"}}

\* C4: a Loop's induction variable differs from every name in its start and
\* end expressions, in the index expressions of the items it was built from,
\* and from every sibling item name of the format.
C4_LoopVarNeverCollides ==
  pc = "done" =>
    /\ \A p \in LoopPositions(out) :
         out[p].variable \notin
           NamesIn(out[p].start) \cup NamesIn(out[p].end) \cup SiblingItemNames(out)
    /\ \A b \in 1..Len(built) :
         built[b].loop.variable \notin
           UNION {IndexNames(built[b].left[k]) : k \in 1..Len(built[b].left)}

NamesOfWindow(w) == UNION {NamesIn(w[k]) : k \in 1..Len(w)}

ExpectedLoopVar(used) ==
  IF "i" \notin used THEN "i"
  ELSE IF "j" \notin used THEN "j"
  ELSE IF "k" \notin used THEN "k"
  ELSE IF "l" \notin used THEN "l"
  ELSE IF "m" \notin used THEN "m"
  ELSE "i"

\* C5: every Loop built gets the first of i, j, k, l, m that occurs neither
\* in start, end nor in any left/right item, and i when all five occur;
\* A_i ... A_N gives loop variable j with start i and end N.
C5_FirstUnusedCandidate ==
  /\ \A b \in 1..Len(built) :
       built[b].loop.variable =
         ExpectedLoopVar(NamesIn(built[b].loop.start) \cup NamesIn(built[b].loop.end)
                         \cup NamesOfWindow(built[b].left)
                         \cup NamesOfWindow(built[b].right))
  /\ (pc = "done" /\ root0 = <<A_(Var("i")), DotsNode, A_(Var("N"))>>)
       => out = <<LoopNode("j", Var("i"), Var("N"), <<A_(Var("j"))>>)>>

C5_Witness ==
  /\ pc = "done"
  /\ root0 = <<A_(Var("i")), DotsNode, A_(Var("N"))>>
  /\ Len(built) = 1
  /\ built[1].loop.variable = "j"

----------------------------------------------------------------------------
(* Inputs of matchFormat: the trees analyze returns for short formats over *)
(* N, A_1, A_N, B_A and dots, the trees of match.test.ts, and sample texts *)
(* of few tokens.                                                          *)
MaxFormatLen == 3
MaxTokens == 3

FormatRawNodes ==
  {Var("N"), A_(NumberNode(1)), A_(Var("N")), B_(Var("A")), DotsNode}

FormatScenarios ==
  { <<Var("N"), A_(NumberNode(1)), DotsNode, A_(Var("N"))>>,
    <<Var("N"), A_(NumberNode(1)), DotsNode, A_(Var("N")), B_(Var("A"))>>,
    <<Var("N"), BreakNode, Var("A"), A_(Var("N"))>>,
    <<A_(Var("N")), Var("B")>>,
    <<A_(Var("constructor"))>>,
    <<A_(Var("M")), DotsNode, A_(Var("N"))>> }

\* match.test.ts: N, Loop(i, 0, N-1, [A_i])
TestArrayLoop ==
  <<Var("N"),
    LoopNode("i", NumberNode(0), BinOpNode("-", Var("N"), NumberNode(1)),
             <<A_(Var("i"))>>)>>

\* match.test.ts: H W, Loop(i, 0, H-1, Loop(j, 0, W-1, C_ij))
Test2DArray ==
  <<Var("H"), Var("W"),
    LoopNode("i", NumberNode(0), BinOpNode("-", Var("H"), NumberNode(1)),
      <<LoopNode("j", NumberNode(0), BinOpNode("-", Var("W"), NumberNode(1)),
          <<ItemNode("C", <<Var("i"), Var("j")>>)>>)>>)>>

\* match.test.ts: A B
TestScalars == <<Var("A"), Var("B")>>

FormatTrees ==
  {analyze(r) : r \in SeqsUpTo(FormatRawNodes, MaxFormatLen) \cup FormatScenarios}
    \cup {TestArrayLoop, Test2DArray, TestScalars}

SampleTokens == {<<"0">>, <<"2">>, <<"a">>, <<"1", ".", "5">>}

\* the tokens written on one line
RECURSIVE spaced(_)
spaced(ts) ==
  IF Len(ts) = 0 THEN <<>>
  ELSE IF Len(ts) = 1 THEN ts[1]
  ELSE ts[1] \o <<" ">> \o spaced(Tail(ts))

Test2DInput ==
  spaced(<<<<"2">>, <<"3">>, <<"1">>, <<"2">>, <<"3">>, <<"4">>, <<"5">>, <<"6">>>>)
TestArrayInput == spaced(<<<<"3">>, <<"1", "0">>, <<"2", "0">>, <<"3", "0">>>>)
TestNewlineInput ==
  <<"\n", " ", " ", "1", "0", "\n", " ", " ", " ", "2", "0", "\n", " ">>

SampleTexts ==
  {spaced(ts) : ts \in SeqsUpTo(SampleTokens, MaxTokens)}
    \cup {Test2DInput, TestArrayInput, TestNewlineInput}

----------------------------------------------------------------------------
(* matchFormat as a state machine: the sample is tokenized, processNode    *)
(* runs on one child of the FormatNode per step, and the call returns env  *)
(* or is left by the exception a step raised.                              *)
InitMatcher ==
  /\ pc = "ready"
  /\ format \in FormatTrees
  /\ input \in SampleTexts
  /\ tokens = <<>>
  /\ env = <<>>
  /\ tokenIndex = 0
  /\ error = NoError
  /\ loopRuns = <<>>
  /\ lookups = {}
  /\ child = 1
  /\ AnalyzerIdle
  /\ TypingIdle
  /\ GeneratorIdle

matchState ==
  [tokens |-> tokens, env |-> env, tokenIndex |-> tokenIndex, error |-> error,
   loopRuns |-> loopRuns, lookups |-> lookups]

ApplyMatch(st) ==
  /\ tokens' = st.tokens
  /\ env' = st.env
  /\ tokenIndex' = st.tokenIndex
  /\ error' = st.error
  /\ loopRuns' = st.loopRuns
  /\ lookups' = st.lookups
  /\ pc' = IF st.error # NoError THEN "raised" ELSE "process"
  /\ child' = IF st.error # NoError THEN child ELSE child + 1

MatchEnter ==
  /\ pc = "ready"
  /\ tokens' = tokenize(input)
  /\ pc' = "process"
  /\ UNCHANGED <<format, input, env, tokenIndex, error, loopRuns, lookups, child>>
  /\ UNCHANGED <<anVars, tVars, gVars>>

ProcessItem ==
  /\ pc = "process"
  /\ child <= Len(format)
  /\ format[child].type = "item"
  /\ ApplyMatch(processNode(format[child], <<>>, matchState))
  /\ UNCHANGED <<format, input>>
  /\ UNCHANGED <<anVars, tVars, gVars>>

ProcessLoop ==
  /\ pc = "process"
  /\ child <= Len(format)
  /\ format[child].type = "loop"
  /\ ApplyMatch(processNode(format[child], <<>>, matchState))
  /\ UNCHANGED <<format, input>>
  /\ UNCHANGED <<anVars, tVars, gVars>>

ProcessOther ==
  /\ pc = "process"
  /\ child <= Len(format)
  /\ format[child].type \notin {"item", "loop"}
  /\ ApplyMatch(processNode(format[child], <<>>, matchState))
  /\ UNCHANGED <<format, input>>
  /\ UNCHANGED <<anVars, tVars, gVars>>

MatchReturn ==
  /\ pc = "process"
  /\ child > Len(format)
  /\ pc' = "returned"
  /\ UNCHANGED <<mVars, anVars, tVars, gVars>>

NextMatcher ==
  \/ MatchEnter
  \/ ProcessItem
  \/ ProcessLoop
  \/ ProcessOther
  \/ MatchReturn

SpecMatcher == InitMatcher /\ [][NextMatcher]_vars

----------------------------------------------------------------------------
(* Claims about matchFormat and evalAST, checked under SpecMatcher *)
RECURSIVE HasLoop(_)
HasLoop(children) ==
  \E p \in 1..Len(children) :
    \/ children[p].type = "loop"
    \/ children[p].type = "format" /\ HasLoop(children[p].children)

\* the Items that are statements of the tree, not parts of an index
RECURSIVE StatementItems(_)
StatementItems(children) ==
  IF Len(children) = 0 THEN 0
  ELSE (IF children[1].type = "item" THEN 1
        ELSE IF children[1].type = "format" THEN StatementItems(children[1].children)
        ELSE 0) + StatementItems(Tail(children))

\* C6 (as amended): on a tree without Loop nodes the cursor has advanced by
\* one token per statement-level Item processed, whatever the Item's number
\* of indices and none for the Items inside index expressions; so a call
\* that returns has consumed exactly as many tokens as the tree has
\* statement-level Items, and a call that raises at most that many.
C6_CursorCountsItemsOnReturn ==
  ~HasLoop(format) =>
    /\ pc \in {"process", "returned"} =>
         tokenIndex = StatementItems(SubSeq(format, 1, child - 1))
    /\ pc = "returned" => tokenIndex = StatementItems(format)
    /\ pc = "raised" => tokenIndex <= StatementItems(format)

C6_Witness ==
  /\ pc = "returned"
  /\ ~HasLoop(format)
  /\ \E p \in 1..Len(format) :
       format[p].type = "item" /\ Len(format[p].indices) > 0
  /\ tokenIndex = StatementItems(format)
  /\ tokenIndex >= 2
  /\ Len(tokens) > tokenIndex

\* C6 (as stated): for every tree without Loop nodes and every sample with
\* enough tokens, matchFormat advances its cursor by exactly the number of
\* statement-level Items of the tree.
C6_CursorCountsItemsAlways ==
  (/\ pc \in {"returned", "raised"}
   /\ ~HasLoop(format)
   /\ Len(tokens) >= StatementItems(format))
    => tokenIndex = StatementItems(format)

IsIntNum(x) == x.k = "num" /\ x.e = 0

\* start, start+1, ..., end
RangeVals(a, b) == [p \in 1..Max(0, b - a + 1) |-> IntNum(a + p - 1)]

KeysOf(val) == [p \in 1..Len(val.props) |-> val.props[p].key]
ValuesOf(val) == [p \in 1..Len(val.props) |-> val.props[p].value]

\* C7: a Loop whose start and end evaluate to integers runs its body
\* max(0, end - start + 1) times with the induction variable bound to
\* start, start+1, ..., end in this order (a run cut short by an exception
\* aside); when end < start the body does not run, no token is consumed,
\* env is unchanged and nothing is raised.  Array values are stored under
\* the comma-joined index tuple: the 2D array of match.test.ts gets keys
\* "0,0" .. "1,2" in row-major token order, a 1D array the keys start..end.
C7_LoopRunsInclusiveRange ==
  /\ \A r \in 1..Len(loopRuns) :
       (IsIntNum(loopRuns[r].start) /\ IsIntNum(loopRuns[r].end)) =>
         /\ ~loopRuns[r].raised =>
              loopRuns[r].vals = RangeVals(loopRuns[r].start.n, loopRuns[r].end.n)
         /\ loopRuns[r].end.n < loopRuns[r].start.n =>
              /\ loopRuns[r].vals = <<>>
              /\ loopRuns[r].consumed = 0
              /\ loopRuns[r].envUnchanged
              /\ ~loopRuns[r].raised
  /\ (pc = "returned" /\ format = Test2DArray /\ input = Test2DInput) =>
       /\ KeysOf(get(env, "C")) = <<"0,0", "0,1", "0,2", "1,0", "1,1", "1,2">>
       /\ ValuesOf(get(env, "C")) =
            <<<<"1">>, <<"2">>, <<"3">>, <<"4">>, <<"5">>, <<"6">>>>
       /\ tokenIndex = 8
  /\ (pc = "returned" /\ format = TestArrayLoop /\ input = TestArrayInput) =>
       /\ KeysOf(get(env, "A")) = <<"0", "1", "2">>
       /\ ValuesOf(get(env, "A")) = <<<<"1", "0">>, <<"2", "0">>, <<"3", "0">>>>

C7_Witness ==
  /\ pc = "returned"
  /\ format = Test2DArray
  /\ input = Test2DInput
  /\ Len(loopRuns) = 3
  /\ loopRuns[1].vals = <<IntNum(0), IntNum(1)>>
  /\ Len(get(env, "C").props) = 6

\* C8: evalAST raises whenever an Item reference does not resolve to a
\* scalar: when the name is not bound, and when it is bound to an array/map
\* value, with or without indices on the reference.
C8_EvalRaisesOnNonScalar ==
  \A l \in lookups : l.kind \in {"undefined", "object"} => l.raised

----------------------------------------------------------------------------
(* Inputs of inferTypesFromInstances: trees analyze returns, the trees of  *)
(* the typing tests, and a few sample texts per call.                      *)
MaxInstances == 2

TypingFormats ==
  { <<Var("A")>>,
    <<Var("N"), A_(NumberNode(1)), DotsNode, A_(Var("N"))>>,
    <<A_(NumberNode(1)), DotsNode, A_(Var("N"))>>,
    <<A_(NumberNode(1)), B_(NumberNode(1)), DotsNode, A_(Var("N")), B_(Var("N"))>>,
    <<A_(Var("N")), Var("B")>>,
    <<Var("N"), A_(Var("N")), B_(Var("A"))>> }

TypingTrees == {analyze(r) : r \in TypingFormats} \cup {TestArrayLoop}

TypingTokens == {<<"2">>, <<"1", ".", "5">>, <<"a">>, <<"a", "b">>}

TypingTexts ==
  {<<>>} \cup TypingTokens
    \cup {spaced(<<<<"2">>, t1, t2>>) : t1, t2 \in TypingTokens}

----------------------------------------------------------------------------
(* inferTypesFromInstances as a state machine: the first try block, the    *)
(* collapse of the loops, the second try block, and the return or throw.   *)
(* unifyTypes is also applied on its own to three types of VarType.        *)
InitTyping ==
  /\ \/ /\ pc = "ready"
        /\ format \in TypingTrees
        /\ instances \in SeqsUpTo(TypingTexts, MaxInstances)
        /\ operands = <<>>
     \/ /\ pc = "unify"
        /\ format = <<>>
        /\ instances = <<>>
        /\ operands \in [1..3 -> VarTypes]
  /\ firstError = NoError
  /\ retryError = NoError
  /\ collapsedAst = <<>>
  /\ collapsedVars = {}
  /\ returned = NoResult
  /\ thrown = NoError
  /\ tries = 0
  /\ unified = <<>>
  /\ input = <<>>
  /\ tokens = <<>>
  /\ env = <<>>
  /\ tokenIndex = 0
  /\ error = NoError
  /\ loopRuns = <<>>
  /\ lookups = {}
  /\ child = 1
  /\ AnalyzerIdle
  /\ GeneratorIdle

typingFrame == <<anVars, format, input, tokens, env, tokenIndex, error,
                 loopRuns, lookups, child, instances, operands, gVars>>

ReturnEmpty ==
  /\ pc = "ready"
  /\ Len(instances) = 0
  /\ returned' = Return(<<>>, {})
  /\ pc' = "returned"
  /\ UNCHANGED <<firstError, retryError, collapsedAst, collapsedVars, thrown,
                 tries, unified>>
  /\ UNCHANGED typingFrame

ApplyFirst(first) ==
  /\ returned' = IF first.err = NoError THEN Return(first.types, {}) ELSE returned
  /\ firstError' = first.err
  /\ pc' = IF first.err = NoError THEN "returned" ELSE "caught"

FirstAttempt ==
  /\ pc = "ready"
  /\ Len(instances) > 0
  /\ ApplyFirst(tryInstances(format, instances, NullTypes))
  /\ tries' = tries + 1
  /\ UNCHANGED <<retryError, collapsedAst, collapsedVars, thrown, unified>>
  /\ UNCHANGED typingFrame

ApplyCollapse(collapsed) ==
  /\ collapsedAst' = collapsed.ast
  /\ collapsedVars' = collapsed.vars

CollapseLoops ==
  /\ pc = "caught"
  /\ ApplyCollapse(collapseLoops(format))
  /\ pc' = "collapsed"
  /\ UNCHANGED <<firstError, retryError, returned, thrown, tries, unified>>
  /\ UNCHANGED typingFrame

ApplyRetry(second, outcome) ==
  /\ retryError' = second.err
  /\ returned' = outcome.returned
  /\ thrown' = outcome.thrown
  /\ pc' = IF outcome.thrown = NoError THEN "returned" ELSE "thrown"

RetryWith(second) ==
  ApplyRetry(second,
             retryOutcome(firstError,
                          [ast |-> collapsedAst, vars |-> collapsedVars], second))

Retry ==
  /\ pc = "collapsed"
  /\ collapsedVars # {}
  /\ RetryWith(tryInstances(collapsedAst, instances, NullTypes))
  /\ tries' = tries + 1
  /\ UNCHANGED <<firstError, collapsedAst, collapsedVars, unified>>
  /\ UNCHANGED typingFrame

Rethrow ==
  /\ pc = "collapsed"
  /\ collapsedVars = {}
  /\ thrown' = firstError
  /\ pc' = "thrown"
  /\ UNCHANGED <<firstError, retryError, collapsedAst, collapsedVars, returned,
                 tries, unified>>
  /\ UNCHANGED typingFrame

UnifyTypes ==
  /\ pc = "unify"
  /\ unified' =
       [lr |-> unifyTypes(operands[1], operands[2]),
        rl |-> unifyTypes(operands[2], operands[1]),
        lr_m |-> unifyTypes(unifyTypes(operands[1], operands[2]), operands[3]),
        l_rm |-> unifyTypes(operands[1], unifyTypes(operands[2], operands[3]))]
  /\ pc' = "unified"
  /\ UNCHANGED <<firstError, retryError, collapsedAst, collapsedVars, returned,
                 thrown, tries>>
  /\ UNCHANGED typingFrame

NextTyping ==
  \/ ReturnEmpty
  \/ FirstAttempt
  \/ CollapseLoops
  \/ Retry
  \/ Rethrow
  \/ UnifyTypes

SpecTyping == InitTyping /\ [][NextTyping]_vars

----------------------------------------------------------------------------
(* Claims about type inference, checked under SpecTyping *)
TypeMap(types) == {<<types[p].name, types[p].val>> : p \in 1..Len(types)}

Perms(n) == {f \in [1..n -> 1..n] : \A a, b \in 1..n : f[a] = f[b] => a = b}
Reordered(s, f) == [p \in 1..Len(s) |-> s[f[p]]]

BoundValues(val) == IF val.kind = "object" THEN ValuesOf(val) ELSE <<val.s>>
CountIn(s, x) == Cardinality({p \in 1..Len(s) : s[p] = x})
SameBag(s1, s2) ==
  /\ Len(s1) = Len(s2)
  /\ \A p \in 1..Len(s1) : CountIn(s1, s1[p]) = CountIn(s2, s1[p])

\* two match results that bind the same names to the same values, the
\* elements of an array taken in any order
SameBindings(m1, m2) ==
  /\ {m1[p].name : p \in 1..Len(m1)} = {m2[p].name : p \in 1..Len(m2)}
  /\ \A p \in 1..Len(m1) :
       /\ m1[p].val.kind = get(m2, m1[p].name).kind
       /\ SameBag(BoundValues(m1[p].val), BoundValues(get(m2, m1[p].name)))

TypesOfSample(children, text) ==
  TypeMap(getVarTypesFromMatchResult(matchFormat(children, text).env).types)

MatchedTree == IF firstError = NoError THEN format ELSE collapsedAst

\* C9: unifyTypes is commutative and associative over the six types of
\* VarType; the types inferTypesFromInstances returns are the same for
\* every order of the instances, and the type of a variable is the same for
\* every order of the values one instance gives it.
C9_UnifyOrderIndependent ==
  /\ pc = "unified" =>
       /\ unified.lr = unified.rl
       /\ unified.lr_m = unified.l_rm
  /\ pc = "returned" =>
       \A f \in Perms(Len(instances)) :
         /\ inferTypesFromInstances(format, Reordered(instances, f)).thrown = NoError
         /\ TypeMap(inferTypesFromInstances(format, Reordered(instances, f)).returned.types)
              = TypeMap(returned.types)
  /\ pc = "returned" =>
       \A k \in 1..Len(instances) :
         \A f \in Perms(Len(tokenize(instances[k]))) :
           (/\ matchFormat(MatchedTree,
                           spaced(Reordered(tokenize(instances[k]), f))).error = NoError
            /\ SameBindings(matchFormat(MatchedTree, instances[k]).env,
                            matchFormat(MatchedTree,
                              spaced(Reordered(tokenize(instances[k]), f))).env))
             => TypesOfSample(MatchedTree, spaced(Reordered(tokenize(instances[k]), f)))
                  = TypesOfSample(MatchedTree, instances[k])

C9_Witness ==
  /\ pc = "returned"
  /\ firstError = NoError
  /\ Len(instances) = 2
  /\ TypesOfSample(format, instances[1]) # TypesOfSample(format, instances[2])
  /\ \E p \in 1..Len(returned.types) : returned.types[p].val = "float"
  /\ \E p \in 1..Len(format) : format[p].type = "loop"

\* C10: the collapsed tree is tried at most once; an error that leaves
\* inferTypesFromInstances is the error the first try block caught on the
\* original tree, whether the retry raised as well or no Loop could be
\* collapsed; when the first try block succeeds the collapsed set returned
\* is empty.
C10_RetryOnceOriginalError ==
  /\ tries <= 2
  /\ pc = "thrown" =>
       /\ thrown # NoError
       /\ thrown = tryInstances(format, instances, NullTypes).err
       /\ thrown = firstError
       /\ retryError # firstError => thrown # retryError
       /\ tries = IF collapsedVars = {} THEN 1 ELSE 2
  /\ pc = "returned" =>
       /\ thrown = NoError
       /\ firstError = NoError => (returned.collapsedVars = {} /\ tries <= 1)
       /\ firstError # NoError =>
            (tries = 2 /\ returned.collapsedVars = collapsedVars /\ collapsedVars # {})

C10_Witness ==
  /\ pc = "thrown"
  /\ tries = 2
  /\ retryError # NoError
  /\ retryError # firstError
  /\ thrown = firstError
  /\ Len(instances) > 0

\* the Loops of the tree given to collapseLoops that it finds collapsible
CollapsiblePositions ==
  {p \in 1..Len(format) :
     /\ format[p].type = "loop"
     /\ isCollapsible(format[p], bodyLeaves(format[p].body))}

\* C11: collapseLoops changes a collapsible Loop only by removing the
\* loop-variable index from its body Item: the Loop stays in the rewritten
\* tree with its variable and bounds, and its body holds the rewritten Item.
C11_CollapseKeepsLoop ==
  pc \in {"collapsed", "returned", "thrown"} /\ firstError # NoError =>
    \A p \in CollapsiblePositions :
      /\ collapsedAst[p].type = "loop"
      /\ collapsedAst[p].variable = format[p].variable
      /\ collapsedAst[p].start = format[p].start
      /\ collapsedAst[p].end = format[p].end
      /\ bodyItems(bodyLeaves(collapsedAst[p].body))
           = <<collapsedItem(bodyItems(bodyLeaves(format[p].body))[1],
                             format[p].variable)>>

\* the match results the two try blocks type: those of the instances the
\* tree, or the collapsed tree, matches
MatchedEnvs ==
  {matchFormat(format, instances[k]).env :
     k \in {q \in 1..Len(instances) :
              matchFormat(format, instances[q]).error = NoError}}
    \cup {matchFormat(collapsedAst, instances[k]).env :
            k \in {q \in 1..Len(instances) :
                     /\ collapsedVars # {}
                     /\ matchFormat(collapsedAst, instances[q]).error = NoError}}

ScalarTypes == {"int", "float", "char", "string"}

\* C12: inferTypesFromInstances never raises a TypingError: every value
\* the Matcher binds is a string, which getVarType classifies as int, float,
\* char or string, or an array binding that holds at least one value.
C12_NoTypingError ==
  /\ firstError.name # "TypingError"
  /\ retryError.name # "TypingError"
  /\ thrown.name # "TypingError"
  /\ \A m \in MatchedEnvs :
       /\ getVarTypesFromMatchResult(m).err = NoError
       /\ \A p \in 1..Len(m) :
            /\ m[p].val.kind \in {"string", "object"}
            /\ m[p].val.kind = "object" => Len(m[p].val.props) >= 1
            /\ \A q \in 1..Len(candidateTypes(m[p].val)) :
                 candidateTypes(m[p].val)[q] \in ScalarTypes

C12_Witness ==
  /\ pc = "returned"
  /\ \E p \in 1..Len(returned.types) : returned.types[p].val = "string"
  /\ \E m \in MatchedEnvs : \E p \in 1..Len(m) :
       m[p].val.kind = "object" /\ Len(m[p].val.props) >= 2

----------------------------------------------------------------------------
(* Lexer (lexer.ts). A format string is a sequence of characters, each a    *)
(* one-character string; a character outside ASCII is written U+hhhh.       *)

LowerCase ==
  {"a", "b", "c", "d", "e", "f", "g", "h", "i", "j", "k", "l", "m",
   "n", "o", "p", "q", "r", "s", "t", "u", "v", "w", "x", "y", "z"}
UpperCase ==
  {"A", "B", "C", "D", "E", "F", "G", "H", "I", "J", "K", "L", "M",
   "N", "O", "P", "Q", "R", "S", "T", "U", "V", "W", "X", "Y", "Z"}
Letters == LowerCase \cup UpperCase
SpaceChars == {" ", "\t", "U+00A0"}
Ellipsis == "U+2026"
VerticalEllipsis == "U+22EE"

subscriptMap ==
  ("U+2080" :> "0") @@ ("U+2081" :> "1") @@ ("U+2082" :> "2")
    @@ ("U+2083" :> "3") @@ ("U+2084" :> "4") @@ ("U+2085" :> "5")
    @@ ("U+2086" :> "6") @@ ("U+2087" :> "7") @@ ("U+2088" :> "8")
    @@ ("U+2089" :> "9") @@ ("U+2090" :> "a") @@ ("U+2091" :> "e")
    @@ ("U+2095" :> "h") @@ ("U+1D62" :> "i") @@ ("U+2C7C" :> "j")
    @@ ("U+2096" :> "k") @@ ("U+2097" :> "l") @@ ("U+2098" :> "m")
    @@ ("U+2099" :> "n") @@ ("U+2092" :> "o") @@ ("U+209A" :> "p")
    @@ ("U+1D63" :> "r") @@ ("U+209B" :> "s") @@ ("U+209C" :> "t")
    @@ ("U+1D64" :> "u") @@ ("U+1D65" :> "v") @@ ("U+2093" :> "x")

subscriptMinusMap == ("U+208B" :> "-")

isSubscriptChar(c) ==
  c \in DOMAIN subscriptMap \/ c \in DOMAIN subscriptMinusMap

plainOf(c) ==
  IF c \in DOMAIN subscriptMap THEN subscriptMap[c] ELSE subscriptMinusMap[c]

\* Lexer.normalizeInput: a run of Unicode subscripts becomes '_' and the
\* plain characters
RECURSIVE normalizeChars(_, _)
normalizeChars(text, inSubscript) ==
  IF Len(text) = 0 THEN <<>>
  ELSE IF isSubscriptChar(text[1])
  THEN (IF inSubscript THEN <<>> ELSE <<"_">>)
         \o <<plainOf(text[1])>> \o normalizeChars(Tail(text), TRUE)
  ELSE <<text[1]>> \o normalizeChars(Tail(text), FALSE)

normalizeInput(text) == normalizeChars(text, FALSE)

RECURSIVE Concat(_)
Concat(s) == IF Len(s) = 0 THEN "" ELSE s[1] \o Concat(Tail(s))

RECURSIVE runLength(_, _)
runLength(rest, S) ==
  IF Len(rest) > 0 /\ rest[1] \in S THEN 1 + runLength(Tail(rest), S) ELSE 0

startsWith(rest, prefix) ==
  Len(rest) >= Len(prefix) /\ SubSeq(rest, 1, Len(prefix)) = prefix

Rule(type, len) == [type |-> type, len |-> len]

\* the first rule of Lexer.rules whose regex matches the rest of the input
matchRule(rest) ==
  IF startsWith(rest, <<"\r", "\n">>) THEN Rule("newline", 2)
  ELSE IF rest[1] \in {"\r", "\n"} THEN Rule("newline", 1)
  ELSE IF rest[1] \in SpaceChars THEN Rule("space", runLength(rest, SpaceChars))
  ELSE IF startsWith(rest, <<".", ".", ".">>) THEN Rule("dots", 3)
  ELSE IF rest[1] = Ellipsis THEN Rule("dots", 1)
  ELSE IF rest[1] = VerticalEllipsis THEN Rule("vdots", 1)
  ELSE IF rest[1] = "_" THEN Rule("subscript", 1)
  ELSE IF rest[1] \in Digits THEN Rule("number", runLength(rest, Digits))
  ELSE IF rest[1] \in Letters
  THEN Rule("ident", 1 + runLength(Tail(rest), Letters \cup Digits))
  ELSE IF rest[1] \in {"-", "+", "*", "/"} THEN Rule("binop", 1)
  ELSE IF rest[1] = "(" THEN Rule("lparen", 1)
  ELSE IF rest[1] = ")" THEN Rule("rparen", 1)
  ELSE IF rest[1] = "," THEN Rule("comma", 1)
  ELSE Rule("none", 0)

\* a token; num is the value of a number token (parseInt(value, 10))
Token(type, chars, line, column) ==
  [type |-> type,
   value |-> Concat(chars),
   num |-> IF type = "number" THEN DigitsValue(chars) ELSE 0,
   line |-> line,
   column |-> column]

EofToken(line, column) ==
  [type |-> "eof", value |-> "", num |-> 0, line |-> line, column |-> column]

LexError(line, column, c) ==
  [name |-> "Error",
   message |-> "Unexpected character at line " \o ToString(line)
                 \o ", column " \o ToString(column) \o ": " \o c]

\* value.split('\n').length - 1
newlinesIn(chars) == Cardinality({p \in 1..Len(chars) : chars[p] = "\n"})

RECURSIVE lexFrom(_, _, _, _)
lexMatched(rest, line, column, toks, rule) ==
  IF rule.len = 0
  THEN [tokens |-> <<>>, err |-> LexError(line, column, rest[1])]
  ELSE lexFrom(SubSeq(rest, rule.len + 1, Len(rest)),
               line + newlinesIn(SubSeq(rest, 1, rule.len)),
               IF newlinesIn(SubSeq(rest, 1, rule.len)) > 0 THEN 1
               ELSE column + rule.len,
               IF rule.type = "space" THEN toks
               ELSE Append(toks, Token(rule.type, SubSeq(rest, 1, rule.len),
                                       line, column)))

lexFrom(rest, line, column, toks) ==
  IF Len(rest) = 0
  THEN [tokens |-> Append(toks, EofToken(line, column)), err |-> NoError]
  ELSE lexMatched(rest, line, column, toks, matchRule(rest))

\* new Lexer(text).tokenize()
lexerTokenize(text) == lexFrom(normalizeInput(text), 1, 1, <<>>)

----------------------------------------------------------------------------
(* Parser (parser.ts 8-157). A parse function takes the tokens and the      *)
(* position pos (1-based) and returns the node, the new position and the    *)
(* exception raised, if any. this.peek() past the last token is undefined,  *)
(* and reading its type raises a TypeError.                                 *)

Parsed(node, pos) == [node |-> node, pos |-> pos, err |-> NoError]
Skipped(pos) == [node |-> NullLoop, pos |-> pos, err |-> NoError]
PeekFailed(pos) ==
  [node |-> NullLoop, pos |-> pos,
   err |-> TypeError("Cannot read properties of undefined (reading 'type')")]

\* this.peek().type
peekType(toks, pos) == IF pos <= Len(toks) THEN toks[pos].type ELSE "undefined"

isOp(toks, pos, ops) == toks[pos].type = "binop" /\ toks[pos].value \in ops

RECURSIVE parseItem(_, _)
RECURSIVE parseExpression(_, _)
RECURSIVE itemLoop(_, _, _, _)
RECURSIVE exprList(_, _, _, _)
RECURSIVE mulDivLoop(_, _)
RECURSIVE addSubLoop(_, _)

closeParen(toks, r) ==
  IF r.err # NoError THEN r
  ELSE IF peekType(toks, r.pos) = "undefined" THEN PeekFailed(r.pos)
  ELSE IF peekType(toks, r.pos) = "rparen" THEN Parsed(r.node, r.pos + 1)
  ELSE r

parseAtom(toks, pos) ==
  IF peekType(toks, pos) = "undefined" THEN PeekFailed(pos)
  ELSE IF toks[pos].type = "lparen"
  THEN closeParen(toks, parseExpression(toks, pos + 1))
  ELSE IF toks[pos].type = "ident" THEN parseItem(toks, pos)
  ELSE IF toks[pos].type = "number"
  THEN Parsed(NumberNode(toks[pos].num), pos + 1)
  ELSE Parsed(ItemNode("ERROR", <<>>), pos + 1)

mulDivNext(toks, left, op, right) ==
  IF right.err # NoError THEN right
  ELSE mulDivLoop(toks, Parsed(BinOpNode(op, left, right.node), right.pos))

mulDivLoop(toks, r) ==
  IF r.err # NoError THEN r
  ELSE IF peekType(toks, r.pos) = "undefined" THEN PeekFailed(r.pos)
  ELSE IF isOp(toks, r.pos, {"*", "/"})
  THEN mulDivNext(toks, r.node, toks[r.pos].value, parseAtom(toks, r.pos + 1))
  ELSE r

parseMulDiv(toks, pos) == mulDivLoop(toks, parseAtom(toks, pos))

addSubNext(toks, left, op, right) ==
  IF right.err # NoError THEN right
  ELSE addSubLoop(toks, Parsed(BinOpNode(op, left, right.node), right.pos))

addSubLoop(toks, r) ==
  IF r.err # NoError THEN r
  ELSE IF peekType(toks, r.pos) = "undefined" THEN PeekFailed(r.pos)
  ELSE IF isOp(toks, r.pos, {"+", "-"})
  THEN addSubNext(toks, r.node, toks[r.pos].value, parseMulDiv(toks, r.pos + 1))
  ELSE r

parseAddSub(toks, pos) == addSubLoop(toks, parseMulDiv(toks, pos))

parseExpression(toks, pos) == parseAddSub(toks, pos)

\* the list of expressions in parentheses, after one more was parsed
exprListNext(toks, name, indices, r) ==
  IF r.err # NoError THEN r
  ELSE IF peekType(toks, r.pos) = "undefined" THEN PeekFailed(r.pos)
  ELSE IF peekType(toks, r.pos) = "comma"
  THEN exprList(toks, name, Append(indices, r.node), r.pos + 1)
  ELSE IF peekType(toks, r.pos) = "rparen"
  THEN itemLoop(toks, name, Append(indices, r.node), r.pos + 1)
  ELSE itemLoop(toks, name, Append(indices, r.node), r.pos)

exprList(toks, name, indices, pos) ==
  exprListNext(toks, name, indices, parseExpression(toks, pos))

singleIndex(toks, name, indices, r) ==
  IF r.err # NoError THEN r
  ELSE itemLoop(toks, name, Append(indices, r.node), r.pos)

\* parseItem's while loop over the subscripts; pos is the token peeked
itemLoop(toks, name, indices, pos) ==
  IF peekType(toks, pos) = "undefined" THEN PeekFailed(pos)
  ELSE IF peekType(toks, pos) # "subscript" THEN Parsed(ItemNode(name, indices), pos)
  ELSE IF peekType(toks, pos + 1) = "undefined" THEN PeekFailed(pos + 1)
  ELSE IF peekType(toks, pos + 1) # "lparen"
  THEN singleIndex(toks, name, indices, parseExpression(toks, pos + 1))
  ELSE IF peekType(toks, pos + 2) = "undefined" THEN PeekFailed(pos + 2)
  ELSE IF peekType(toks, pos + 2) = "rparen"
  THEN itemLoop(toks, name, indices, pos + 3)
  ELSE exprList(toks, name, indices, pos + 2)

parseItem(toks, pos) == itemLoop(toks, toks[pos].value, <<>>, pos + 1)

\* a node, or NullLoop for the null of a skipped token
parseStatement(toks, pos) ==
  IF toks[pos].type = "ident" THEN parseItem(toks, pos)
  ELSE IF toks[pos].type = "newline" THEN Parsed(BreakNode, pos + 1)
  ELSE IF toks[pos].type \in {"dots", "vdots"} THEN Parsed(DotsNode, pos + 1)
  ELSE Skipped(pos + 1)

RECURSIVE parseFrom(_, _, _)
parseNext(toks, children, stmt) ==
  IF stmt.err # NoError THEN [children |-> <<>>, err |-> stmt.err]
  ELSE parseFrom(toks, stmt.pos,
                 IF stmt.node = NullLoop THEN children
                 ELSE Append(children, stmt.node))

parseFrom(toks, pos, children) ==
  IF peekType(toks, pos) = "undefined"
  THEN [children |-> <<>>, err |-> PeekFailed(pos).err]
  ELSE IF toks[pos].type = "eof" THEN [children |-> children, err |-> NoError]
  ELSE parseNext(toks, children, parseStatement(toks, pos))

\* new Parser(tokens).parse(): the children of the FormatNode
parse(toks) ==
  parseFrom(SelectSeq(toks, LAMBDA t : t.type # "space"), 1, <<>>)

----------------------------------------------------------------------------
(* VariableExtractor (variable-extractor.ts 16-123). this.vars is a Map: a  *)
(* sequence of [name, dims, indices, loopDepth] in insertion order.         *)

NoUsage == [dims |-> 0, indices |-> <<>>, loopDepth |-> 0]

hasVar(vs, name) == \E p \in 1..Len(vs) : vs[p].name = name
varIndex(vs, name) == CHOOSE p \in 1..Len(vs) : vs[p].name = name

\* this.vars.get(name) || { dims: 0, indices: [], loopDepth: 0 }
existingUsage(vs, name) ==
  IF hasVar(vs, name)
  THEN [dims |-> vs[varIndex(vs, name)].dims,
        indices |-> vs[varIndex(vs, name)].indices,
        loopDepth |-> vs[varIndex(vs, name)].loopDepth]
  ELSE NoUsage

\* this.vars.set(name, info): an existing key keeps its place
setVar(vs, info) ==
  IF hasVar(vs, info.name) THEN [vs EXCEPT ![varIndex(vs, info.name)] = info]
  ELSE Append(vs, info)

\* loops.find((l) => l.variable === idxName): the first, outermost, loop
findLoop(loops, idxName) ==
  IF \E p \in 1..Len(loops) : loops[p].variable = idxName
  THEN loops[CHOOSE p \in 1..Len(loops) :
               /\ loops[p].variable = idxName
               /\ \A q \in 1..(p - 1) : loops[q].variable # idxName]
  ELSE NullLoop

resolvedSize(idx, loops) ==
  IF idx.type = "item" /\ findLoop(loops, idx.name) # NullLoop
  THEN findLoop(loops, idx.name).end
  ELSE idx

visitItem(vs, item, loops) ==
  IF Len(item.indices) >= existingUsage(vs, item.name).dims
  THEN setVar(vs, [name |-> item.name,
                   dims |-> Len(item.indices),
                   indices |-> [p \in 1..Len(item.indices) |->
                                  resolvedSize(item.indices[p], loops)],
                   loopDepth |-> Len(loops)])
  ELSE vs

RECURSIVE visit(_, _, _)
RECURSIVE visitAll(_, _, _)

visitAll(ns, loops, vs) ==
  IF Len(ns) = 0 THEN vs
  ELSE visitAll(Tail(ns), loops, visit(ns[1], loops, vs))

visit(node, loops, vs) ==
  IF node.type = "format" THEN visitAll(node.children, loops, vs)
  ELSE IF node.type = "loop"
  THEN visitAll(node.body, Append(loops, node),
                visit(node.end, loops, visit(node.start, loops, vs)))
  ELSE IF node.type = "item" THEN visitItem(vs, node, loops)
  ELSE IF node.type = "binop"
  THEN visit(node.right, loops, visit(node.left, loops, vs))
  ELSE vs

\* VariableExtractor.extract(formatTree), on a new VariableExtractor
extractVariables(children) == visitAll(children, <<>>, <<>>)

VariableInfo(name, type, dims, indices) ==
  [name |-> name, type |-> type, dims |-> dims, indices |-> indices]

\* types[name] || VarType.ValueInt
typeOrInt(types, name) ==
  IF typeAt(types, name) = "undefined" THEN "int" ELSE typeAt(types, name)

\* indices.slice(-n) for n > 0
sliceLast(s, n) == IF n >= Len(s) THEN s ELSE SubSeq(s, Len(s) - n + 1, Len(s))

variableOf(info, type, collapsed) ==
  IF info.name \in collapsed /\ info.dims > 0
  THEN VariableInfo(info.name, type, info.dims - 1,
                    SubSeq(info.indices, 1, Len(info.indices) - 1))
  ELSE IF type = "string" /\ info.dims > info.loopDepth
  THEN VariableInfo(info.name, type, info.loopDepth,
                    IF info.loopDepth = 0 THEN <<>>
                    ELSE sliceLast(info.indices, info.loopDepth))
  ELSE VariableInfo(info.name, type, info.dims, info.indices)

\* extractor.getVariables(types), after setCollapsedVars(collapsed)
getVariables(vs, types, collapsed) ==
  [p \in 1..Len(vs) |-> variableOf(vs[p], typeOrInt(types, vs[p].name), collapsed)]

----------------------------------------------------------------------------
(* UniversalGenerator (universal.ts 19-356). Emitted text is made of        *)
(* strings; a template is a string with {key} placeholders.                 *)

IdentNode(v) == [type |-> "ident", value |-> v]

\* an index that is not there: variable.indices[0] of an empty list
UndefinedNode == [type |-> "undefined"]

at(s, p) == IF p <= Len(s) THEN s[p] ELSE UndefinedNode

\* a template configuration of the declared shape (CodeGeneratorConfig),
\* with the C++ templates the generator tests expect
Config ==
  [base_indent |-> 2,
   loop |-> [header |-> "for(int {loop_var} = 0 ; {loop_var} < {length} ; {loop_var}++){",
             footer |-> "}"],
   type |-> [int |-> "long long", float |-> "double", str |-> "std::string"],
   arg |-> [int |-> "long long {name}", float |-> "double {name}",
            str |-> "std::string {name}",
            seq |-> "std::vector<{type}> {name}",
            seq2d |-> "std::vector<std::vector<{type}>> {name}"],
   actual_arg |-> [seq |-> "std::move({name})", seq2d |-> "std::move({name})"],
   access |-> [seq |-> "{name}[{index}]", seq2d |-> "{name}[{index_i}][{index_j}]"],
   declare |-> [int |-> "long long {name};", float |-> "double {name};",
                str |-> "std::string {name};"],
   declare_and_allocate |->
     [seq |-> "std::vector<{type}> {name}({length});",
      seq2d |-> "std::vector<std::vector<{type}>> {name}({length_i}, std::vector<{type}>({length_j}));"],
   input |-> [int |-> "std::cin >> {name};", float |-> "std::cin >> {name};",
              str |-> "std::cin >> {name};"]]

\* ' '.repeat(n)
RECURSIVE repeatSpace(_)
repeatSpace(n) == IF n <= 0 THEN "" ELSE " " \o repeatSpace(n - 1)

indent == repeatSpace(Config.base_indent)

WordChars == Letters \cup Digits \cup {"_"}

\* the length of the run of \w characters a string starts with
RECURSIVE wordRun(_)
wordRun(s) ==
  IF Len(s) > 0 /\ Head(s) \in WordChars THEN 1 + wordRun(Tail(s)) ELSE 0

paramOrEmpty(params, key) ==
  IF key \in DOMAIN params THEN params[key] ELSE ""

\* params[key] || `{${key}}`
paramOr(params, key) ==
  IF key \in DOMAIN params /\ params[key] # "" THEN params[key]
  ELSE "{" \o key \o "}"

RECURSIVE formatFrom(_, _)
formatAt(template, params, w) ==
  IF w > 0 /\ Len(template) >= w + 2 /\ SubSeq(template, w + 2, w + 2) = "}"
  THEN paramOr(params, SubSeq(template, 2, w + 1))
         \o formatFrom(SubSeq(template, w + 3, Len(template)), params)
  ELSE "{" \o formatFrom(Tail(template), params)

\* template.replace(/{(\w+)}/g, ...)
formatFrom(template, params) ==
  IF Len(template) = 0 THEN ""
  ELSE IF Head(template) = "{" THEN formatAt(template, params, wordRun(Tail(template)))
  ELSE Head(template) \o formatFrom(Tail(template), params)

formatString(template, params) == formatFrom(template, params)

RECURSIVE stringifyNode(_)
stringifyNode(node) ==
  IF node.type = "undefined" THEN ""
  ELSE IF node.type = "ident" THEN node.value
  ELSE IF node.type = "item" THEN node.name
  ELSE IF node.type = "number" THEN ToString(node.value)
  ELSE IF node.type = "binop"
  THEN stringifyNode(node.left) \o " " \o node.op \o " " \o stringifyNode(node.right)
  ELSE IF "name" \in DOMAIN node THEN node.name
  ELSE IF "value" \in DOMAIN node THEN ToString(node.value)
  ELSE ""

mapVarType(type) ==
  IF type \in {"int", "index_int"} THEN "int"
  ELSE IF type = "float" THEN "float"
  ELSE IF type \in {"string", "char"} THEN "str"
  ELSE "int"

generateDeclaration(variable) ==
  IF variable.dims = 0
  THEN formatString(Config.declare[mapVarType(variable.type)],
                    [name |-> variable.name])
  ELSE IF variable.dims = 1
  THEN formatString(Config.declare_and_allocate.seq,
                    [name |-> variable.name,
                     type |-> Config.type[mapVarType(variable.type)],
                     length |-> stringifyNode(at(variable.indices, 1))])
  ELSE IF variable.dims = 2
  THEN formatString(Config.declare_and_allocate.seq2d,
                    [name |-> variable.name,
                     type |-> Config.type[mapVarType(variable.type)],
                     length_i |-> stringifyNode(at(variable.indices, 1)),
                     length_j |-> stringifyNode(at(variable.indices, 2))])
  ELSE "// TODO: declaration for " \o variable.name

\* variables.find(v => v.name === name): its position, 0 when there is none
findVariable(variables, name) ==
  IF \E p \in 1..Len(variables) : variables[p].name = name
  THEN CHOOSE p \in 1..Len(variables) :
         /\ variables[p].name = name
         /\ \A q \in 1..(p - 1) : variables[q].name # name
  ELSE 0

itemInputOf(node, variable) ==
  IF variable.dims = 0
  THEN formatString(Config.input[mapVarType(variable.type)],
                    [name |-> variable.name])
  ELSE IF variable.dims = 1
  THEN formatString(Config.input[mapVarType(variable.type)],
         [name |-> formatString(Config.access.seq,
                     [name |-> variable.name,
                      index |-> stringifyNode(at(node.indices, 1))])])
  ELSE IF variable.dims = 2
  THEN formatString(Config.input[mapVarType(variable.type)],
         [name |-> formatString(Config.access.seq2d,
                     [name |-> variable.name,
                      index_i |-> stringifyNode(at(node.indices, 1)),
                      index_j |-> stringifyNode(at(node.indices, 2))])])
  ELSE "// TODO: input for " \o node.name

generateItemInput(node, variables) ==
  IF findVariable(variables, node.name) = 0
  THEN "// Unknown variable " \o node.name
  ELSE itemInputOf(node, variables[findVariable(variables, node.name)])

indented(ls) == [p \in 1..Len(ls) |-> indent \o ls[p]]

RECURSIVE generateInput(_, _)

generateLoopInput(node, variables) ==
  <<formatString(Config.loop.header,
                 [loop_var |-> node.variable, length |-> stringifyNode(node.end)])>>
    \o indented(generateInput(node.body, variables))
    \o <<Config.loop.footer>>

generateInput(ns, variables) ==
  IF Len(ns) = 0 THEN <<>>
  ELSE (IF ns[1].type = "item" THEN <<generateItemInput(ns[1], variables)>>
        ELSE IF ns[1].type = "loop" THEN generateLoopInput(ns[1], variables)
        ELSE <<>>)
         \o generateInput(Tail(ns), variables)

\* strs.join(sep)
RECURSIVE joinWith(_, _)
joinWith(strs, sep) ==
  IF Len(strs) = 0 THEN ""
  ELSE IF Len(strs) = 1 THEN strs[1]
  ELSE strs[1] \o sep \o joinWith(Tail(strs), sep)

formalArgument(v) ==
  IF v.dims = 0
  THEN formatString(Config.arg[mapVarType(v.type)],
                    [name |-> v.name, type |-> Config.type[mapVarType(v.type)]])
  ELSE IF v.dims = 1
  THEN formatString(Config.arg.seq,
                    [name |-> v.name, type |-> Config.type[mapVarType(v.type)]])
  ELSE IF v.dims = 2
  THEN formatString(Config.arg.seq2d,
                    [name |-> v.name, type |-> Config.type[mapVarType(v.type)]])
  ELSE ""

generateFormalArguments(variables) ==
  joinWith([p \in 1..Len(variables) |-> formalArgument(variables[p])], ", ")

actualArgument(v) ==
  IF v.dims = 0 THEN v.name
  ELSE IF v.dims = 1 THEN formatString(Config.actual_arg.seq, [name |-> v.name])
  ELSE formatString(Config.actual_arg.seq2d, [name |-> v.name])

generateActualArguments(variables) ==
  joinWith([p \in 1..Len(variables) |-> actualArgument(variables[p])], ", ")

declarations(variables) ==
  [p \in 1..Len(variables) |-> generateDeclaration(variables[p])]

\* the TemplateContext returned; lines are the lines input_part joins
TemplateContext(ls, variables, cases) ==
  [prediction_success |-> TRUE,
   formal_arguments |-> generateFormalArguments(variables),
   actual_arguments |-> generateActualArguments(variables),
   lines |-> indented(ls),
   input_part |-> joinWith(indented(ls), "\n"),
   multiple_cases |-> cases]

generateSingle(children, variables, cases) ==
  TemplateContext(declarations(variables) \o generateInput(children, variables),
                  variables, cases)

\* allVariables: the variables of every part, the first of each name kept
RECURSIVE dedupe(_, _)
dedupe(vs, seen) ==
  IF Len(vs) = 0 THEN seen
  ELSE dedupe(Tail(vs),
              IF findVariable(seen, vs[1].name) = 0 THEN Append(seen, vs[1])
              ELSE seen)

RECURSIVE allVariablesOf(_)
allVariablesOf(ps) ==
  IF Len(ps) = 0 THEN <<>>
  ELSE ps[1].variables \o allVariablesOf(Tail(ps))

scalarInts(variables) ==
  SelectSeq(variables, LAMBDA v : v.dims = 0 /\ v.type \in {"int", "index_int"})

namedQ(variables) == SelectSeq(variables, LAMBDA v : v.name \in {"Q", "q"})

\* the name of the count-of-queries variable, and the line emitted when
\* none is found
queryLoop(variables) ==
  IF Len(namedQ(variables)) > 0
  THEN [name |-> namedQ(variables)[1].name, ls |-> <<>>]
  ELSE IF Len(scalarInts(variables)) > 0
  THEN [name |-> scalarInts(variables)[Len(scalarInts(variables))].name, ls |-> <<>>]
  ELSE [name |-> "Q", ls |-> <<"int Q; cin >> Q; // TODO: Check variable name">>]

\* firstTokenValue !== undefined ? firstTokenValue : i, as it is printed
discriminator(children, k) ==
  IF Len(children) > 0 /\ children[1].type = "number"
  THEN ToString(children[1].value)
  ELSE ToString(k)

\* the lines of the dispatch branch of part k (k = 1 for the first query part)
branch(part, k) ==
  <<indent \o (IF k = 1 THEN "if" ELSE "else if") \o " (type == "
      \o discriminator(part.formatTree, k) \o ") {">>
    \o indented(indented(declarations(part.variables)
                           \o generateInput(part.formatTree, part.variables)))
    \o <<indent \o "}">>

RECURSIVE branches(_, _)
branches(ps, k) ==
  IF Len(ps) = 0 THEN <<>>
  ELSE branch(ps[1], k) \o branches(Tail(ps), k + 1)

generateMulti(ps, cases) ==
  TemplateContext(
    declarations(ps[1].variables)
      \o generateInput(ps[1].formatTree, ps[1].variables)
      \o queryLoop(ps[1].variables).ls
      \o <<"while(" \o queryLoop(ps[1].variables).name \o "--){">>
      \o <<indent \o "int type; cin >> type;">>
      \o branches(Tail(ps), 1)
      \o <<"}">>,
    dedupe(allVariablesOf(ps), <<>>), cases)

\* UniversalGenerator.generate(parts, cases); a part's formatTree is
\* held as the children of its FormatNode
generate(ps, cases) ==
  IF Len(ps) = 1
  THEN generateSingle(ps[1].formatTree, ps[1].variables, cases)
  ELSE generateMulti(ps, cases)

----------------------------------------------------------------------------
(* Inputs of generateParseResult and of UniversalGenerator.generate: format *)
(* strings made of a few words, the formats of the spec's scenarios and of  *)
(* the multi-format test, and the trees and variable lists the generator    *)
(* tests build by hand.                                                     *)
MaxWords == 3
MaxQueryParts == 2
MaxDescriptors == 2

FormatWords ==
  { <<"N">>, <<"M">>, <<"A", "_", "1">>, <<"A", "_", "N">>, <<".", ".", ".">>,
    <<"\n">>, <<"A", "_", "1", "_", "2", "_", "3">>, <<"2">>, <<"z">> }

\* N M A_(1,M) ... A_(N,M)
FormatSecondIndexFixed ==
  spaced(<< <<"N">>, <<"M">>, <<"A", "_", "(", "1", ",", "M", ")">>,
            <<".", ".", ".">>, <<"A", "_", "(", "N", ",", "M", ")">> >>)

\* N \n a_1 a_2 a_3 ... a_N, written with the Unicode ellipsis
FormatScenario2 ==
  <<"N", "\n">> \o spaced(<< <<"a", "_", "1">>, <<"a", "_", "2">>,
                            <<"a", "_", "3">>, <<Ellipsis>>, <<"a", "_", "N">> >>)

\* N S_N
FormatIndexedScalar == spaced(<< <<"N">>, <<"S", "_", "N">> >>)

\* N A_N B_(A_1_2): A also occurs, with two indices, inside an index
FormatNestedIndex ==
  spaced(<< <<"N">>, <<"A", "_", "N">>,
            <<"B", "_", "(", "A", "_", "1", "_", "2", ")">> >>)

\* S_(1,1) ... S_(N,1): the loop variable stands first of two indices
FormatLoopIndexFirst ==
  spaced(<< <<"N">>, <<"S", "_", "(", "1", ",", "1", ")">>, <<".", ".", ".">>,
            <<"S", "_", "(", "N", ",", "1", ")">> >>)

\* A_(1,i_x,j,k,l,m) ... A_(N,i_x,j,k,l,m): i, j, k, l and m all occur
allTaken(first) ==
  <<"A", "_", "(", first, ",", "i", "_", "x", ",", "j", ",", "k", ",", "l",
    ",", "m", ")">>
FormatAllTaken == spaced(<<allTaken("1"), <<".", ".", ".">>, allTaken("N")>>)

\* A_i_j: two subscripts that are identifiers
FormatTwoSubscripts == <<"A", "_", "i", "_", "j">>

\* N A_0 ... A_(N-1): the 0-based sequence
FormatZeroBased ==
  spaced(<< <<"N">>, <<"A", "_", "0">>, <<".", ".", ".">>,
            <<"A", "_", "(", "N", "-", "1", ")">> >>)

\* a character no Lexer rule matches, and a subscript at the end of input
FormatUnlexable == <<"N", " ", "{">>
FormatDangling == <<"N", " ", "A", "_">>

SingleFormats ==
  {spaced(ws) : ws \in SeqsUpTo(FormatWords, MaxWords)}
    \cup {FormatSecondIndexFixed, FormatScenario2, FormatIndexedScalar,
          FormatNestedIndex, FormatLoopIndexFirst, FormatAllTaken,
          FormatTwoSubscripts, FormatZeroBased, FormatUnlexable,
          FormatDangling}

SetupFormats == {<<"N", " ", "Q">>, <<"Q">>, <<"N", "\n", "S">>}

QueryFormats ==
  {<<"1", " ", "x", " ", "y">>, <<"2", " ", "z">>, <<"z">>, <<"x", " ", "3">>,
   <<"x", "_", "N">>}

MultiFormats ==
  {<<s>> \o qs : s \in SetupFormats,
                 qs \in SeqsUpTo(QueryFormats, MaxQueryParts) \ {<<>>}}

PipelineSamples ==
  { <<>>,
    << <<"2", " ", "a", "b">> >>,
    << <<"3", " ", "1", " ", "a", "b", "c">> >>,
    << <<"2", " ", "1", " ", "2">> >> }

\* the trees of the generator tests: indices and bounds are 'ident' nodes
TestSimpleTree == <<Var("N")>>
TestArrayTree ==
  <<Var("N"),
    LoopNode("i", NumberNode(0), IdentNode("N"), <<ItemNode("A", <<IdentNode("i")>>)>>)>>
TestInterleavedTree ==
  TestArrayTree
    \o <<Var("M"),
         LoopNode("j", NumberNode(0), IdentNode("M"),
                  <<ItemNode("B", <<IdentNode("j")>>)>>)>>
TestInterleavedVariables ==
  <<VariableInfo("N", "int", 0, <<>>),
    VariableInfo("A", "int", 1, <<IdentNode("N")>>),
    VariableInfo("M", "int", 0, <<>>),
    VariableInfo("B", "int", 1, <<IdentNode("M")>>)>>

\* a scalar use of A next to the loop over A
ScalarAndLoopTree == <<Var("A")>> \o TestArrayTree

Descriptors ==
  { VariableInfo("N", "int", 0, <<>>),
    VariableInfo("A", "int", 1, <<IdentNode("N")>>),
    VariableInfo("A", "float", 2, <<IdentNode("N")>>),
    VariableInfo("A", "string", 3, <<>>),
    VariableInfo("A", "char", 1, <<>>),
    VariableInfo("A", "query", 0, <<>>) }

DirectParts ==
  { << [variables |-> vs, formatTree |-> t] >> :
      vs \in SeqsUpTo(Descriptors, MaxDescriptors),
      t \in {TestSimpleTree, TestArrayTree, ScalarAndLoopTree} }
    \cup { << [variables |-> TestInterleavedVariables,
               formatTree |-> TestInterleavedTree] >> }

----------------------------------------------------------------------------
(* generateParseResult as a state machine: for each input format, the      *)
(* Lexer, the Parser, the Analyzer, type inference (first part only), the   *)
(* VariableExtractor; then UniversalGenerator.generate on the parts.  The   *)
(* generator is also entered directly with hand-built parts.                *)

othersIdle == AnalyzerIdle /\ MatcherIdle /\ TypingIdle
othersFrame == UNCHANGED <<anVars, mVars, tVars>>

InitFromFormats ==
  /\ pc = "formats"
  /\ inputFormats \in {<<f>> : f \in SingleFormats} \cup MultiFormats
  /\ samples \in PipelineSamples
  /\ multipleCases = FALSE
  /\ parts = <<>>

InitFromParts ==
  /\ pc = "parts"
  /\ inputFormats = <<>>
  /\ samples = <<>>
  /\ multipleCases \in BOOLEAN
  /\ parts \in DirectParts

InitGenerator ==
  /\ othersIdle
  /\ InitFromFormats \/ InitFromParts
  /\ partIndex = 1
  /\ lexed = <<>>
  /\ rawAst = <<>>
  /\ formatTree = <<>>
  /\ inferred = NoInference
  /\ extracted = <<>>
  /\ context = NoContext
  /\ failure = NoError

ApplyTokenize(r) ==
  /\ lexed' = r.tokens
  /\ failure' = r.err
  /\ pc' = IF r.err = NoError THEN "lexed" ELSE "failed"

\* new Lexer(inputFormat).tokenize()
Tokenize ==
  /\ pc = "formats"
  /\ ApplyTokenize(lexerTokenize(inputFormats[partIndex]))
  /\ UNCHANGED <<inputFormats, samples, multipleCases, partIndex, rawAst,
                 formatTree, inferred, extracted, parts, context>>
  /\ othersFrame

ApplyParse(r) ==
  /\ rawAst' = r.children
  /\ failure' = r.err
  /\ pc' = IF r.err = NoError THEN "parsed" ELSE "failed"

\* new Parser(tokens).parse()
ParseFormat ==
  /\ pc = "lexed"
  /\ ApplyParse(parse(lexed))
  /\ UNCHANGED <<inputFormats, samples, multipleCases, partIndex, lexed,
                 formatTree, inferred, extracted, parts, context>>
  /\ othersFrame

\* new Analyzer().analyze(rawAst)
Analyze ==
  /\ pc = "parsed"
  /\ formatTree' = analyze(rawAst)
  /\ pc' = "analyzed"
  /\ UNCHANGED <<inputFormats, samples, multipleCases, partIndex, lexed,
                 rawAst, inferred, extracted, parts, context, failure>>
  /\ othersFrame

inferenceOf(o) ==
  IF o.thrown = NoError
  THEN [types |-> o.returned.types, collapsedVars |-> o.returned.collapsedVars]
  ELSE NoInference

\* types and collapsedVars: inferred for the first part, inside try/catch
InferTypes ==
  /\ pc = "analyzed"
  /\ inferred' = IF partIndex = 1
                 THEN inferenceOf(inferTypesFromInstances(formatTree, samples))
                 ELSE NoInference
  /\ pc' = "typed"
  /\ UNCHANGED <<inputFormats, samples, multipleCases, partIndex, lexed,
                 rawAst, formatTree, extracted, parts, context, failure>>
  /\ othersFrame

ApplyExtract(vs) ==
  /\ extracted' = vs
  /\ parts' = Append(parts,
                     [variables |-> getVariables(vs, inferred.types,
                                                 inferred.collapsedVars),
                      formatTree |-> formatTree])

\* extractor.extract(formatTree); getVariables(types); parts.push
ExtractVariables ==
  /\ pc = "typed"
  /\ ApplyExtract(extractVariables(formatTree))
  /\ IF partIndex < Len(inputFormats)
     THEN partIndex' = partIndex + 1 /\ pc' = "formats"
     ELSE partIndex' = partIndex /\ pc' = "parts"
  /\ UNCHANGED <<inputFormats, samples, multipleCases, lexed, rawAst,
                 formatTree, inferred, context, failure>>
  /\ othersFrame

\* UniversalGenerator.generate(parts, multipleCases)
Generate ==
  /\ pc = "parts"
  /\ context' = generate(parts, multipleCases)
  /\ pc' = "generated"
  /\ UNCHANGED <<inputFormats, samples, multipleCases, partIndex, lexed,
                 rawAst, formatTree, inferred, extracted, parts, failure>>
  /\ othersFrame

NextGenerator ==
  \/ Tokenize
  \/ ParseFormat
  \/ Analyze
  \/ InferTypes
  \/ ExtractVariables
  \/ Generate

SpecGenerator == InitGenerator /\ [][NextGenerator]_vars

----------------------------------------------------------------------------
(* Claims about the VariableExtractor.                                      *)

\* the Item usages of a tree with the loops around each: statements, loop
\* bounds and operands of binary operations
RECURSIVE usagesOf(_, _)
usagesIn(ns, around) == UNION {usagesOf(ns[p], around) : p \in 1..Len(ns)}

usagesOf(node, around) ==
  IF node.type = "item" THEN {[item |-> node, loops |-> around]}
  ELSE IF node.type = "loop"
  THEN usagesOf(node.start, around) \cup usagesOf(node.end, around)
         \cup usagesIn(node.body, Append(around, node))
  ELSE IF node.type = "binop"
  THEN usagesOf(node.left, around) \cup usagesOf(node.right, around)
  ELSE {}

isBare(idx) == idx.type = "item" /\ Len(idx.indices) = 0

enclosing(idx, around) ==
  {p \in 1..Len(around) : isBare(idx) /\ around[p].variable = idx.name}

\* the size the claim asks for at one index position
sizeAsClaimed(size, idx, around) ==
  IF enclosing(idx, around) # {}
  THEN \E p \in enclosing(idx, around) : size = around[p].end
  ELSE size = idx

definedBy(info, usage) ==
  /\ usage.item.name = info.name
  /\ Len(usage.item.indices) = info.dims
  /\ Len(info.indices) = info.dims
  /\ \A p \in 1..info.dims :
       sizeAsClaimed(info.indices[p], usage.item.indices[p], usage.loops)

Extracted == pc \in {"formats", "parts", "generated"} /\ Len(parts) > 0 /\ inputFormats # <<>>

\* N followed by Loop(i, 1..N, [a_i])
ScenarioArrayTree ==
  <<Var("N"),
    LoopNode("i", NumberNode(1), Var("N"), <<ItemNode("a", <<Var("i")>>)>>)>>

\* C13: every extracted variable has a usage of its name and index count
\* whose indices give its sizes: the end of an enclosing loop for a bare
\* reference to that loop's variable, the index expression itself otherwise;
\* N then Loop(i, 1..N, [a_i]) gives N with 0 dimensions, then a with one
\* dimension of size N.
C13_SizesFromLoopEnds ==
  Extracted =>
    /\ \A p \in 1..Len(extracted) :
         \E u \in usagesIn(formatTree, <<>>) : definedBy(extracted[p], u)
    /\ formatTree = ScenarioArrayTree =>
         /\ Len(extracted) = 2
         /\ extracted[1].name = "N" /\ extracted[1].dims = 0
         /\ extracted[2].name = "a" /\ extracted[2].dims = 1
         /\ extracted[2].indices = <<Var("N")>>

\* every Item of a tree, those inside index expressions included
RECURSIVE itemsOf(_)
itemsIn(ns) == UNION {itemsOf(ns[p]) : p \in 1..Len(ns)}

itemsOf(node) ==
  IF node.type = "item" THEN {node} \cup itemsIn(node.indices)
  ELSE IF node.type = "loop"
  THEN itemsOf(node.start) \cup itemsOf(node.end) \cup itemsIn(node.body)
  ELSE IF node.type = "binop" THEN itemsOf(node.left) \cup itemsOf(node.right)
  ELSE {}

indexLengths(name, ns) ==
  {Len(it.indices) : it \in {x \in itemsIn(ns) : x.name = name}}

maxOf(S) == CHOOSE m \in S : \A n \in S : n <= m

lastPart == parts[Len(parts)]

trimmed(p) ==
  \/ extracted[p].name \in inferred.collapsedVars
  \/ /\ lastPart.variables[p].type = "string"
     /\ extracted[p].dims > extracted[p].loopDepth

\* C14: the dimensionality of every variable getVariables returns is at most
\* the largest index count its name has anywhere in the tree (index
\* expressions and loop bounds included), and equals it unless the variable
\* is in the collapsed set or the string trim applied.
C14_DimsIsMaxAnywhere ==
  Extracted =>
    \A p \in 1..Len(lastPart.variables) :
      /\ indexLengths(lastPart.variables[p].name, formatTree) # {}
      /\ lastPart.variables[p].dims
           <= maxOf(indexLengths(lastPart.variables[p].name, formatTree))
      /\ ~trimmed(p) =>
           lastPart.variables[p].dims
             = maxOf(indexLengths(lastPart.variables[p].name, formatTree))

\* C15: a variable of the collapsed set has one dimension fewer than its
\* defining usage, and the sizes it keeps are, position by position, those
\* of the indices kept on the Item that collapseLoops put in place of the
\* loop.
C15_DropsCollapsedIndex ==
  Extracted =>
    \A p \in 1..Len(extracted) :
      (extracted[p].name \in inferred.collapsedVars /\ extracted[p].dims > 0) =>
        /\ lastPart.variables[p].dims = extracted[p].dims - 1
        /\ \E u \in usagesIn(collapseLoops(formatTree).ast, <<>>) :
             definedBy(lastPart.variables[p], u)

\* C16: every variable descriptor the pipeline produces from a format
\* string has dimensionality 0, 1 or 2.
C16_DimsAtMostTwo ==
  Extracted =>
    \A k \in 1..Len(parts) : \A p \in 1..Len(parts[k].variables) :
      parts[k].variables[p].dims \in {0, 1, 2}

----------------------------------------------------------------------------
(* Claims about the UniversalGenerator.                                     *)

hasPrefix(s, pre) == Len(s) >= Len(pre) /\ SubSeq(s, 1, Len(pre)) = pre
dropFirst(s, n) == SubSeq(s, n + 1, Len(s))

RECURSIVE leadingSpaces(_)
leadingSpaces(s) ==
  IF Len(s) > 0 /\ Head(s) = " " THEN 1 + leadingSpaces(Tail(s)) ELSE 0

\* what an emitted line is, by its text: its indent depth below the base
\* indent, and a read of a name, a loop header of a variable, or a footer
statementOf(text) ==
  IF hasPrefix(text, "std::cin >> ")
  THEN [kind |-> "read",
        name |-> SubSeq(text, 13, 12 + wordRun(dropFirst(text, 12)))]
  ELSE IF hasPrefix(text, "for(int ")
  THEN [kind |-> "header",
        name |-> SubSeq(text, 9, 8 + wordRun(dropFirst(text, 8)))]
  ELSE IF text = "}" THEN [kind |-> "footer", name |-> ""]
  ELSE [kind |-> "other", name |-> ""]

lineShape(l) ==
  [depth |-> (leadingSpaces(l) \div Config.base_indent) - 1,
   stmt |-> statementOf(dropFirst(l, leadingSpaces(l)))]

\* the pre-order walk of a tree: a read per Item, a header and a footer per
\* Loop around its body one level deeper
RECURSIVE walkOf(_, _)
walkOf(ns, depth) ==
  IF Len(ns) = 0 THEN <<>>
  ELSE (IF ns[1].type = "item"
        THEN <<[depth |-> depth, stmt |-> [kind |-> "read", name |-> ns[1].name]]>>
        ELSE IF ns[1].type = "loop"
        THEN <<[depth |-> depth,
                stmt |-> [kind |-> "header", name |-> ns[1].variable]]>>
               \o walkOf(ns[1].body, depth + 1)
               \o <<[depth |-> depth, stmt |-> [kind |-> "footer", name |-> ""]]>>
        ELSE <<>>)
         \o walkOf(Tail(ns), depth)

\* the lines of a single-part result that follow the declarations
inputLines ==
  SubSeq(context.lines, Len(parts[1].variables) + 1, Len(context.lines))

GeneratedSingle == pc = "generated" /\ Len(parts) = 1

\* C17: for a single part produced from a format string, the lines after
\* the declarations are the pre-order walk of the tree: one read statement
\* per Item, one header and one footer per Loop, in tree order, a loop's
\* body between its header and footer and one indent deeper.
C17_InputMirrorsTree ==
  (GeneratedSingle /\ inputFormats # <<>>) =>
    [p \in 1..Len(inputLines) |-> lineShape(inputLines[p])]
      = walkOf(parts[1].formatTree, 0)

\* lines.findIndex(l => l.includes(text)): 0 when no line holds the text
posOf(text) ==
  IF \E p \in 1..Len(context.lines) : context.lines[p] = indent \o text
  THEN CHOOSE p \in 1..Len(context.lines) :
         /\ context.lines[p] = indent \o text
         /\ \A q \in 1..(p - 1) : context.lines[q] # indent \o text
  ELSE 0

readOf(name) == "std::cin >> " \o name \o ";"

\* a sequence sized by a scalar that the input part declares and reads
sizedBy(a, s) ==
  /\ a.dims = 1 /\ Len(a.indices) = 1
  /\ s.dims = 0
  /\ stringifyNode(a.indices[1]) = s.name
  /\ posOf(generateDeclaration(a)) > 0
  /\ posOf(readOf(s.name)) > 0

\* C18: declarations are interleaved with reads: a sequence sized by a
\* scalar is declared after the read of that scalar, and, for the format
\* N, A_1..A_N, M, B_1..B_M, A is declared before the loop over A and M
\* after it.
C18_DeclarationsInterleaved ==
  GeneratedSingle =>
    /\ \A a \in 1..Len(parts[1].variables) : \A s \in 1..Len(parts[1].variables) :
         sizedBy(parts[1].variables[a], parts[1].variables[s]) =>
           posOf(readOf(parts[1].variables[s].name))
             < posOf(generateDeclaration(parts[1].variables[a]))
    /\ parts[1].formatTree = TestInterleavedTree =>
         /\ posOf("long long N;") < posOf("std::cin >> N;")
         /\ posOf("std::cin >> N;") < posOf("std::vector<long long> A(N);")
         /\ posOf("std::vector<long long> A(N);")
              < posOf("for(int i = 0 ; i < N ; i++){")
         /\ posOf("for(int i = 0 ; i < N ; i++){") < posOf("long long M;")
         /\ posOf("long long M;") < posOf("std::cin >> M;")
         /\ posOf("std::cin >> M;") < posOf("std::vector<long long> B(M);")
         /\ posOf("std::vector<long long> B(M);")
              < posOf("for(int j = 0 ; j < M ; j++){")

contains(s, sub) ==
  \E k \in 1..(Len(s) - Len(sub) + 1) : SubSeq(s, k, k + Len(sub) - 1) = sub

\* the Items read, in the order of their lines: those of a loop's body
\* stand between the loop's header and footer
RECURSIVE readsOf(_)
readsOf(ns) ==
  IF Len(ns) = 0 THEN <<>>
  ELSE (IF ns[1].type = "item" THEN <<ns[1]>>
        ELSE IF ns[1].type = "loop"
        THEN <<ns[1]>> \o readsOf(ns[1].body) \o <<ns[1]>>
        ELSE <<>>)
         \o readsOf(Tail(ns))

\* an explicit marker: a comment line naming the variable, or a line that
\* still holds a template placeholder
isMarker(text, name) ==
  \/ text = "// Unknown variable " \o name
  \/ text = "// TODO: input for " \o name
  \/ text = "// TODO: declaration for " \o name
  \/ contains(text, "{index")
  \/ contains(text, "{length")

stripped(l) == dropFirst(l, leadingSpaces(l))

\* the Item has no descriptor, or one whose dimensionality has no template,
\* or fewer indices than the access template needs
unservedRead(node, variables) ==
  \/ findVariable(variables, node.name) = 0
  \/ /\ findVariable(variables, node.name) # 0
     /\ \/ variables[findVariable(variables, node.name)].dims \notin {0, 1, 2}
        \/ Len(node.indices) < variables[findVariable(variables, node.name)].dims

unservedDeclaration(v) == v.dims \notin {0, 1, 2} \/ Len(v.indices) < v.dims

leadingNumber(text, k) ==
  IF lexerTokenize(text).tokens[1].type = "number"
  THEN ToString(lexerTokenize(text).tokens[1].num)
  ELSE ToString(k)

branchHeaders == SelectSeq(context.lines, LAMBDA l : contains(l, "(type == "))

GeneratedMulti == pc = "generated" /\ Len(parts) > 1 /\ inputFormats # <<>>

\* C20: in multi-part mode every part after the first gives one dispatch
\* branch, in part order, that tests the leading number of the part's
\* format string, or the part's position when the format has none.
C20_DiscriminatorFromFormat ==
  GeneratedMulti =>
    /\ Len(branchHeaders) = Len(parts) - 1
    /\ \A k \in 1..Len(branchHeaders) :
         stripped(branchHeaders[k])
           = (IF k = 1 THEN "if" ELSE "else if") \o " (type == "
               \o leadingNumber(inputFormats[k + 1], k) \o ") {"

\* the number of emitted lines that are this statement
lineCount(text) ==
  Cardinality({p \in 1..Len(context.lines) : stripped(context.lines[p]) = text})

sameShape(v, w) == v.type = w.type /\ v.dims = w.dims

\* C21: in multi-part mode a name that two parts hold with different type
\* or dimensionality is not declared under that one name by both parts (it
\* is renamed per part), and a name on whose type and dimensionality the
\* parts agree is declared once.
C21_NoConflictingDeclarations ==
  GeneratedMulti =>
    \A k \in 1..Len(parts) : \A l \in (k + 1)..Len(parts) :
      \A p \in 1..Len(parts[k].variables) : \A q \in 1..Len(parts[l].variables) :
        parts[k].variables[p].name = parts[l].variables[q].name =>
          IF sameShape(parts[k].variables[p], parts[l].variables[q])
          THEN lineCount(generateDeclaration(parts[k].variables[p])) = 1
          ELSE ~(/\ lineCount(generateDeclaration(parts[k].variables[p])) > 0
                 /\ lineCount(generateDeclaration(parts[l].variables[q])) > 0)

----------------------------------------------------------------------------
(* Claims about the Parser.                                                 *)

\* C22: Parser.parse raises on no Lexer output: for the tokens of every
\* format the Lexer accepts it returns a Format node.
C22_ParseNeverRaises ==
  /\ pc = "lexed" => parse(lexed).err = NoError
  /\ pc = "failed" => failure.name = "Error"

\* the number of subscripts, each followed by one identifier or number,
\* that stand in a row from a position of the token list
RECURSIVE subscriptRun(_, _)
subscriptRun(toks, pos) ==
  IF /\ pos + 1 <= Len(toks)
     /\ toks[pos].type = "subscript"
     /\ toks[pos + 1].type \in {"ident", "number"}
  THEN 1 + subscriptRun(toks, pos + 2)
  ELSE 0

\* the format starts with an identifier and un-bracketed subscripts only
startsUnbracketed(toks) ==
  /\ toks[1].type = "ident"
  /\ toks[2 + 2 * subscriptRun(toks, 2)].type # "subscript"

\* C23: an identifier followed by n un-bracketed subscripts parses to an
\* Item with n index expressions (A_i_j has the two indices i and j, as
\* A_1_2_3 has three).
C23_SubscriptsAccumulate ==
  (pc = "parsed" /\ startsUnbracketed(lexed)) =>
    /\ rawAst[1].type = "item"
    /\ Len(rawAst[1].indices) = subscriptRun(lexed, 2)

----------------------------------------------------------------------------
(* Further claims about the Analyzer.                                       *)

\* the index positions at which two items differ structurally
differingPositions(l, r) ==
  {j \in 1..Len(l.indices) :
     j > Len(r.indices) \/ ~areNodesEqual(l.indices[j], r.indices[j])}

\* C24: every Loop is built from a window whose first left/right pair
\* differs in exactly one index position, and whose later pairs are equal
\* at every other position.
C24_ExactlyOneDifference ==
  \A b \in 1..Len(built) :
    /\ Len(built[b].left[1].indices) = Len(built[b].right[1].indices)
    /\ Cardinality(differingPositions(built[b].left[1], built[b].right[1])) = 1
    /\ \A k \in 2..built[b].K :
         differingPositions(built[b].left[k], built[b].right[k])
           \subseteq differingPositions(built[b].left[1], built[b].right[1])

lastOf(s) == s[Len(s)]

\* C25: a step of normalize that builds a Loop from a window K takes from
\* the output exactly the K left statements of the window (and those the
\* extension absorbs) and puts the Loop in their place: every Loop emitted
\* before stays where it was.
C25_LoopReplacesWindow ==
  [][(pc = "normalize" /\ Len(built') = Len(built) + 1) =>
       /\ Len(result) >= lastOf(built').K
       /\ SubSeq(result, Len(result) - lastOf(built').K + 1, Len(result))
            = lastOf(built').left
       /\ result'[Len(result')].type = "loop"
       /\ \A p \in 1..Len(result) :
            result[p].type = "loop" =>
              (p < Len(result') /\ result'[p] = result[p])]_vars

\* every Item reference of a node, top-level or nested in index expressions
RECURSIVE refsOf(_)
refsOf(node) ==
  IF node.type = "item"
  THEN {node} \cup UNION {refsOf(node.indices[k]) : k \in 1..Len(node.indices)}
  ELSE IF node.type = "binop" THEN refsOf(node.left) \cup refsOf(node.right)
  ELSE {}

refsIn(children) == UNION {refsOf(children[p]) : p \in 1..Len(children)}

\* positions p and q of children are separated by Breaks only
onlyBreaksBetween(children, p, q) ==
  \A x \in 1..Len(children) :
    ((p < x /\ x < q) \/ (q < x /\ x < p)) => children[x].type = "break"

nextToDots(children, p) ==
  \E q \in 1..Len(children) :
    /\ q # p
    /\ children[q].type = "dots"
    /\ onlyBreaksBetween(children, p, q)

\* the three conditions of scalar flattening, over the whole raw tree
isScalarised(name, children) ==
  /\ \A r \in refsIn(children) :
       r.name = name => (Len(r.indices) = 1 /\ r.indices[1].type = "number")
  /\ \A p \in 1..Len(children) :
       (children[p].type = "item" /\ children[p].name = name)
         => ~nextToDots(children, p)

\* got is what flattening has to make of the raw node
RECURSIVE flattenedAs(_, _, _)
flattenedAs(raw, got, children) ==
  IF raw.type = "item" THEN
    /\ got.type = "item"
    /\ IF isScalarised(raw.name, children)
       THEN /\ got.name = raw.name \o ToString(raw.indices[1].value)
            /\ got.indices = <<>>
       ELSE /\ got.name = raw.name
            /\ Len(got.indices) = Len(raw.indices)
            /\ \A k \in 1..Len(raw.indices) :
                 flattenedAs(raw.indices[k], got.indices[k], children)
  ELSE IF raw.type = "binop" THEN
    /\ got.type = "binop"
    /\ got.op = raw.op
    /\ flattenedAs(raw.left, got.left, children)
    /\ flattenedAs(raw.right, got.right, children)
  ELSE got = raw

\* normalize is about to start on the flattened children of root0
Flattened == pc = "normalize" /\ i = 1 /\ result = <<>>

keptOf(children) == SelectSeq(children, IsNotBreak)

\* C26: an identifier is rewritten exactly when every reference to it in the
\* raw tree (nested ones included) has one index, a number literal, and no
\* top-level reference is next to a Dots marker once Breaks are skipped; its
\* references become Items named name+index without indices, and every other
\* item keeps its name and its number of indices.
C26_FlattenExactlyWhen ==
  Flattened =>
    /\ Len(nodes) = Len(keptOf(root0))
    /\ \A p \in 1..Len(nodes) : flattenedAs(keptOf(root0)[p], nodes[p], root0)

\* a reference nested in an index is rewritten, the item around it is not
C26_Witness ==
  /\ Flattened
  /\ \E p \in 1..Len(nodes) :
       /\ nodes[p].type = "item"
       /\ Len(nodes[p].indices) = 1
       /\ nodes[p].indices[1] = Var("B1")
       /\ keptOf(root0)[p].indices[1] = B_(NumberNode(1))
  /\ \E p \in 1..Len(nodes) : nodes[p] = Var("B1")

\* C27: analyze leaves the raw tree it was called with as it was, the literal
\* index values of the items absorbed by loop extension included.
C27_InputUnmodified ==
  root = root0

(* Claims about the stages together. *)

\* a loop bound made of literals, scalars, + and -
RECURSIVE closedBound(_)
closedBound(node) ==
  IF node.type = "number" THEN TRUE
  ELSE IF node.type = "item" THEN node.indices = <<>>
  ELSE IF node.type = "binop"
  THEN node.op \in {"+", "-"} /\ closedBound(node.left) /\ closedBound(node.right)
  ELSE FALSE

\* its value when every scalar is n
RECURSIVE valueAt(_, _)
valueAt(node, n) ==
  IF node.type = "number" THEN node.value
  ELSE IF node.type = "item" THEN n
  ELSE IF node.op = "+" THEN valueAt(node.left, n) + valueAt(node.right, n)
  ELSE valueAt(node.left, n) - valueAt(node.right, n)

LengthValues == 0..3

\* the iterations the Matcher performs for the loop when every scalar is n
iterationsAt(loop, n) ==
  loopCount(IntNum(valueAt(loop.start, n)), IntNum(valueAt(loop.end, n)))

headerLine(loop, length) ==
  formatString(Config.loop.header,
               [loop_var |-> loop.variable, length |-> stringifyNode(length)])

\* the sizes declared for the dimensions that the loop's variable indexes
indexedBy(loop, name, k) ==
  \E b \in 1..Len(loop.body) :
    /\ loop.body[b].type = "item"
    /\ loop.body[b].name = name
    /\ k <= Len(loop.body[b].indices)
    /\ loop.body[b].indices[k] = Var(loop.variable)

sizesBy(loop, variables) ==
  UNION {{variables[v].indices[k] :
            k \in {j \in 1..Len(variables[v].indices) :
                     indexedBy(loop, variables[v].name, j)}} :
         v \in 1..Len(variables)}

closedLoops(tree) ==
  {p \in 1..Len(tree) :
     /\ tree[p].type = "loop"
     /\ closedBound(tree[p].start)
     /\ closedBound(tree[p].end)}

\* C28: for every Loop, the length the generator puts into the loop header
\* and the size the VariableExtractor declares for a dimension indexed by
\* the Loop's variable both equal the number of iterations of the Matcher,
\* max(0, end - start + 1), whatever the start (0 .. N-1 as well as 1 .. N).
C28_LoopLengthAgrees ==
  (GeneratedSingle /\ inputFormats # <<>>) =>
    \A p \in closedLoops(parts[1].formatTree), n \in LengthValues :
      /\ lineCount(headerLine(parts[1].formatTree[p],
                              parts[1].formatTree[p].end)) > 0
      /\ IntNum(valueAt(parts[1].formatTree[p].end, n))
           = iterationsAt(parts[1].formatTree[p], n)
      /\ \A size \in sizesBy(parts[1].formatTree[p], parts[1].variables) :
           closedBound(size) =>
             IntNum(valueAt(size, n)) = iterationsAt(parts[1].formatTree[p], n)

\* the variable a raw item denotes: an identifier that is flattened stands
\* for one scalar per literal index, any other identifier for itself
denotes(item, children) ==
  IF isScalarised(item.name, children)
  THEN <<item.name, item.indices[1].value>>
  ELSE <<item.name>>

\* C29: two items that denote different variables in the raw tree (another
\* name, or the same flattened name with another literal index) have
\* different names after flattening, also when a synthetic name is spelled
\* like an identifier of the format (T_1 next to T1, A1_1 next to A_11).
C29_FlattenNeverMerges ==
  Flattened =>
    \A p, q \in 1..Len(nodes) :
      ( /\ keptOf(root0)[p].type = "item"
        /\ keptOf(root0)[q].type = "item"
        /\ denotes(keptOf(root0)[p], root0) # denotes(keptOf(root0)[q], root0) )
        => nodes[p].name # nodes[q].name

(* Further claims about the Matcher, checked under SpecMatcher. *)

EndOfInput == MatchError("Unexpected end of input")

\* matchFormat on the first k tokens of the sample
prefixRun(k) == processAll(format, <<>>, startMatch(SubSeq(tokens, 1, k)))

\* C30 (as amended): matchFormat reads a prefix of the sample.  A call that
\* returns after d tokens returns the same environment on every truncation
\* of the sample that keeps d tokens or more (surplus tokens are ignored) and
\* raises 'Unexpected end of input' on every shorter one; that error is
\* raised only when the cursor stands behind the last token; any other error
\* (an unbound variable in an index or bound, a store into a name bound to a
\* token) is raised whatever follows the tokens read so far.
C30_ReadsPrefix ==
  /\ pc = "returned" =>
       \A k \in 0..Len(tokens) :
         IF k >= tokenIndex
         THEN /\ prefixRun(k).error = NoError
              /\ prefixRun(k).env = env
              /\ prefixRun(k).tokenIndex = tokenIndex
         ELSE prefixRun(k).error = EndOfInput
  /\ (pc = "raised" /\ error = EndOfInput) => tokenIndex = Len(tokens)
  /\ (pc = "raised" /\ error # EndOfInput) =>
       \A k \in tokenIndex..Len(tokens) : prefixRun(k).error = error

\* a loop was run and the sample holds more tokens than were read
C30_Witness ==
  /\ pc = "returned"
  /\ Len(loopRuns) > 0
  /\ 0 < tokenIndex
  /\ tokenIndex < Len(tokens)

\* C30 (as stated): matchFormat raises exactly when the tree demands more
\* tokens than the sample holds, so whatever it raises is the MatchError of
\* a read behind the last token; with surplus tokens it returns what it
\* returns for the sample truncated to the tokens read.
C30_RaisesExactlyWhenShort ==
  /\ pc = "raised" => (error = EndOfInput /\ tokenIndex = Len(tokens))
  /\ pc = "returned" =>
       /\ prefixRun(tokenIndex).error = NoError
       /\ prefixRun(tokenIndex).env = env

====
